---- MODULE Spec2Model ----
(***************************************************************************)
(* State-machine model of the bitdemon wire-protocol core:                 *)
(*   - the in-memory key store with rotating AES keys (auth/key_store.rs), *)
(*   - the session manager's id assignment (networking/session_manager.rs),*)
(*   - the frame transport, the Lobby dispatcher and the LobbyService      *)
(*     handler of one connection (networking/bd_socket.rs,                 *)
(*     messaging/bd_message.rs, lobby/mod.rs, lobby/service/lobby.rs).     *)
(*   - the Auth dispatcher, the Steam handler and the opaque proof          *)
(*     (auth/auth_server.rs, auth/auth_handler, auth/auth_proof.rs),       *)
(*   - the framing of responses (messaging/bd_response.rs).                *)
(* The specifications share the variables: SpecKeys (key store and clock), *)
(* SpecReg (concurrent connection threads), Spec (one Lobby connection     *)
(* served against the shared key store), SpecOrder (a Lobby connection     *)
(* whose peer writes frames ahead), SpecAuth (one Auth connection),        *)
(* SpecSend (BdResponse::send on its inputs), SpecServing (connection      *)
(* threads inside handlers), SpecCodec (BdWriter and BdReader of           *)
(* messaging/bd_writer.rs and messaging/bd_reader.rs on their inputs),     *)
(* SpecPeek (a BdReader whose owner asks for the next type), SpecReply     *)
(* (AuthMessageType::reply_code), SpecGroups (DwGroupService of            *)
(* dw-server), SpecStream (the frame loop on the bytes of a connection),   *)
(* SpecRace (threads inside get_current_key) and SpecCounts (the           *)
(* GetGroupCounts task).                                                   *)
(***************************************************************************)
EXTENDS Integers, Sequences, FiniteSets, TLC

VARIABLES
    now,                \* chrono::Utc::now().timestamp(), epoch seconds
    clock,              \* the grid on which the clock is sampled: [step, end]
    keys,               \* InMemoryKeyState.keys
    key_index,          \* InMemoryKeyState.key_index
    rng,                \* number of AES keys drawn from rand::rng() so far
    ret,                \* what the last get_current_key call returned (observer)
    issued,             \* keys handed out in the last 60 s, with the time (observer)
    proofs,             \* opaque proofs the Auth server has sealed and given out
    session,            \* BdSession of the Lobby connection: [id, authentication]
    conn,               \* the connection thread: "open", "closed", "panicked"
    msgs,               \* frames taken off the connection so far
    TRANSACTION_ID_COUNTER, \* thread-local counter of the connection thread
    last_in,            \* the frame handled last (observer)
    last_out,           \* what handling it did (observer)
    session_id_counter, \* SessionManager.session_id_counter
    counter_lock,       \* holder of the session_id_counter mutex, 0 when free
    poisoned,           \* the mutex was held by a thread that panicked
    pc,                 \* position of every registering thread
    sid,                \* BdSession.id of every registering thread
    lobby_readers,      \* threads holding a read guard of LobbyServer.lobby_handlers
    tx_counters,        \* the TRANSACTION_ID_COUNTER instance of every thread
    replies,            \* transaction ids of the TaskReplies every thread created
    inbox,              \* frames the peer has written that were not read yet
    trace,              \* reads, dispatches and replies of the connection thread
    writer,             \* a BdWriter and the Vec<u8> it writes to
    reader,             \* a BdReader over a buffer
    written,            \* the values given to the writer, in order
    read_back,          \* the results of the reads made on the reader, in order
    phase,              \* what the owner of the codec does: writes, reads, ...
    session_groups,     \* DwGroupService.session_groups
    aggregated_group_counts, \* DwGroupService.aggregated_group_counts
    group_calls,        \* locals of the DwGroupService call every thread is in
    stream,             \* the bytes the peer sends, and how many have arrived
    buffered            \* the buffer of the BufReader of the session

keyVars == <<now, clock, keys, key_index, rng, ret, issued>>
lobbyVars == <<proofs, session, conn, msgs, TRANSACTION_ID_COUNTER, last_in, last_out>>
serveVars == <<lobby_readers, tx_counters, replies>>
regVars == <<session_id_counter, counter_lock, poisoned, pc, sid, lobby_readers,
             tx_counters, replies>>
orderVars == <<inbox, trace>>
codecVars == <<writer, reader, written, read_back, phase>>
groupVars == <<session_groups, aggregated_group_counts, group_calls>>
wireVars == <<stream, buffered>>
vars == <<now, clock, keys, key_index, rng, ret, issued,
          proofs, session, conn, msgs, TRANSACTION_ID_COUNTER, last_in, last_out,
          session_id_counter, counter_lock, poisoned, pc, sid, lobby_readers,
          tx_counters, replies, inbox, trace,
          writer, reader, written, read_back, phase,
          session_groups, aggregated_group_counts, group_calls, stream, buffered>>

\* No writer or reader exists.
InitCodecIdle ==
    /\ writer = <<>>
    /\ reader = <<>>
    /\ written = <<>>
    /\ read_back = <<>>
    /\ phase = "idle"

\* No group service exists and no byte is on its way.
InitGroupIdle ==
    /\ session_groups = <<>>
    /\ aggregated_group_counts = <<>>
    /\ group_calls = <<>>
    /\ stream = <<>>
    /\ buffered = <<>>

\* Option<T>: None is the empty sequence, Some(x) the sequence of x alone.
None == <<>>

Some(x) == <<x>>

IsSome(o) == o # <<>>

Unwrap(o) == o[1]

(***************************************************************************)
(* Bounds of the model.                                                    *)
(***************************************************************************)
\* Epoch second at which a behaviour starts (the servers start long after 1970).
StartTime == 1000
\* Seconds of key-store history followed in SpecKeys: 16 rotations 61 s apart.
KeyHorizon == 976
\* Seconds of a Lobby connection followed in Spec.
LobbyHorizon == 1200
\* Connection threads that register concurrently in SpecReg.
NThreads == 3
\* Frames one Lobby connection takes off the wire in Spec.
MaxMsgs == 3
\* Opaque proofs the Auth server seals in Spec.
MaxProofs == 2
\* Clock grids of SpecKeys: 60 s is the last age at which a key is current,
\* 61 s the first at which it is rotated.
KeyClockSteps == {60, 61}
\* Frames one Auth connection takes off the wire in SpecAuth.
MaxAuthMsgs == 2
\* Seconds of an Auth connection followed in SpecAuth.
AuthHorizon == 1000
\* Longest response payload, in bytes, handed to BdResponse::send in SpecSend.
MaxDataLen == 20
\* Clock grid of Spec: a key sealed at the start is still valid after one
\* step and expired after two.
LobbyClockSteps == {600}

\* TaskReplies followed per connection thread.
MaxReplies == 2

\* Calls made on one writer that sets type tags.
MaxTypedWrites == 2

\* write_bits calls made on one writer.
MaxBitWrites == 3

\* Reads made on one buffer of unknown origin.
MaxRawReads == 2

\* Calls made on one reader whose owner looks at the next type first.
MaxPeekReads == 3

\* Times reply_code is applied in a row, each time to the result before.
MaxReplyCalls == 2

\* Sessions that use the group service, and set_groups calls of each.
MaxGroupSessions == 2
MaxSetGroupsCalls == 2

\* Threads that call get_current_key concurrently in SpecRace, the calls they
\* make in all, and the seconds followed.
NRaceThreads == 3
MaxRaceCalls == 3
RaceHorizon == 140

Threads == 1 .. NThreads

(***************************************************************************)
(* Key store: auth/key_store.rs                                            *)
(***************************************************************************)
IN_MEMORY_KEY_LIFESPAN == 15 * 60

IN_MEMORY_KEY_TIMEOUT == 14 * 60

MAX_CONCURRENTLY_VALID_KEYS ==
    IN_MEMORY_KEY_LIFESPAN \div (IN_MEMORY_KEY_LIFESPAN - IN_MEMORY_KEY_TIMEOUT)

\* Mutant: the ring of three slots the specification text describes.
StorageCountOfThree == 2 + 1

IN_MEMORY_KEY_STORAGE_COUNT == MAX_CONCURRENTLY_VALID_KEYS + 1

Slots == 0 .. (IN_MEMORY_KEY_STORAGE_COUNT - 1)

\* InMemoryKey::empty(): the all-zero AES key is key 0.
InMemoryKey_empty == [aes_key |-> 0, valid_until |-> 0]

\* Mutant: a key stays current until it expires.
IsCurrentUntilExpiry(key, t) == key.valid_until >= t

\* `current_key.valid_until >= min_lifespan` with min_lifespan = now + TIMEOUT.
IsCurrent(key, t) == key.valid_until >= t + IN_MEMORY_KEY_TIMEOUT

\* Mutant: the index is not advanced, the current slot is overwritten.
SameIndex(i) == i

NextIndex(i) == (i + 1) % IN_MEMORY_KEY_STORAGE_COUNT

\* Mutant: the new key lives only as long as the rotation threshold.
ShortLivedKey(aes, t) == [aes_key |-> aes, valid_until |-> t + IN_MEMORY_KEY_TIMEOUT]

\* The key a rotation at time t installs; aes stands for 32 fresh random bytes.
NewKey(aes, t) == [aes_key |-> aes, valid_until |-> t + IN_MEMORY_KEY_LIFESPAN]

\* Mutant: every call draws a new key, whatever the current key's lifetime.
rotate_always(ks, idx, t, fresh) ==
    [keys |-> [ks EXCEPT ![NextIndex(idx)] = NewKey(fresh, t)],
     key_index |-> NextIndex(idx), key |-> NewKey(fresh, t), rotated |-> TRUE]

\* get_current_key at time t on the state (ks, idx); fresh is the next random
\* key.  Result: the new state, the exported key and whether a key was drawn.
get_current_key(ks, idx, t, fresh) ==
    IF IsCurrent(ks[idx], t)
    THEN [keys |-> ks, key_index |-> idx, key |-> ks[idx], rotated |-> FALSE]
    ELSE LET i == NextIndex(idx)
             k == NewKey(fresh, t)
         IN  [keys |-> [ks EXCEPT ![i] = k], key_index |-> i,
              key |-> k, rotated |-> TRUE]

\* Mutant: expired slots are returned too.
AllSlots(ks, t) == DOMAIN ks

\* The slots get_valid_keys exports at time t.
ValidSlots(ks, t) == {i \in DOMAIN ks : ks[i].valid_until >= t}

get_valid_keys(ks, t) == {ks[i].aes_key : i \in ValidSlots(ks, t)}

(***************************************************************************)
(* The clock and the key store's operations as actions.                    *)
(***************************************************************************)
\* Seconds for which a handed-out key is followed by the observer `issued`.
OverlapWindow == IN_MEMORY_KEY_LIFESPAN - IN_MEMORY_KEY_TIMEOUT

\* The clock advances by one step of its grid; it never goes back.
Tick ==
    /\ now + clock.step <= clock.end
    /\ now' = now + clock.step
    /\ issued' = {e \in issued : e.t + OverlapWindow >= now + clock.step}
    /\ UNCHANGED <<clock, keys, key_index, rng, ret>>
    /\ UNCHANGED lobbyVars
    /\ UNCHANGED regVars
    /\ UNCHANGED <<orderVars, codecVars, groupVars, wireVars>>

\* One call of InMemoryKeyStore::get_current_key, under the write lock.
GetCurrentKey ==
    LET r == get_current_key(keys, key_index, now, rng + 1)
    IN  /\ keys' = r.keys
        /\ key_index' = r.key_index
        /\ rng' = IF r.rotated THEN rng + 1 ELSE rng
        /\ ret' = Some([t |-> now, key |-> r.key])
        /\ issued' = issued \cup {[key |-> r.key.aes_key, t |-> now]}
        /\ UNCHANGED <<now, clock>>
        /\ UNCHANGED lobbyVars
        /\ UNCHANGED regVars
        /\ UNCHANGED <<orderVars, codecVars, groupVars, wireVars>>

InitKeyStore ==
    /\ keys = [i \in Slots |-> InMemoryKey_empty]
    /\ key_index = 0
    /\ rng = 0
    /\ ret = None
    /\ issued = {}

InitLobbyIdle ==
    /\ proofs = {}
    /\ session = [id |-> 0, authentication |-> None]
    /\ conn = "closed"
    /\ msgs = 0
    /\ TRANSACTION_ID_COUNTER = 0
    /\ last_in = None
    /\ last_out = None
    /\ inbox = <<>>
    /\ trace = <<>>
    /\ InitCodecIdle
    /\ InitGroupIdle

\* No thread is inside the dispatcher and every thread-local counter has its
\* initial value (const { RefCell::new(0u64) }).
InitServe ==
    /\ lobby_readers = {}
    /\ tx_counters = [t \in Threads |-> 0]
    /\ replies = [t \in Threads |-> <<>>]

InitRegIdle ==
    /\ session_id_counter = 0
    /\ counter_lock = 0
    /\ poisoned = FALSE
    /\ pc = [t \in Threads |-> "idle"]
    /\ sid = [t \in Threads |-> 0]
    /\ InitServe

InitKeys ==
    /\ now = StartTime
    /\ clock \in {[step |-> s, end |-> StartTime + KeyHorizon] : s \in KeyClockSteps}
    /\ InitKeyStore
    /\ InitLobbyIdle
    /\ InitRegIdle

NextKeys == Tick \/ GetCurrentKey

SpecKeys == InitKeys /\ [][NextKeys]_vars

(***************************************************************************)
(* Claims about the key store, checked under SpecKeys.                     *)
(***************************************************************************)
\* A step in which get_current_key drew a fresh key and overwrote a slot.
Rotation == rng' # rng

\* C6: the key a get_current_key call made at time t returns has
\* valid_until >= t + 60.
C6_ReturnedKeyLivesSixtySeconds ==
    IsSome(ret) => Unwrap(ret).key.valid_until >= Unwrap(ret).t + 60

\* C6 witness: a call that returned the current key without rotating, at the
\* last second at which that key is current.
C6_Witness ==
    /\ IsSome(ret)
    /\ Unwrap(ret).t = now
    /\ Unwrap(ret).key.valid_until = now + 840
    /\ rng >= 2

\* C7: a key handed out by get_current_key at time t is among
\* get_valid_keys() at every time from t to t + 60, whatever rotations happen.
C7_IssuedKeyStaysValid ==
    \A e \in issued :
        (e.t <= now /\ now <= e.t + 60) => e.key \in get_valid_keys(keys, now)

\* C7 witness: a key handed out 60 s ago is no longer current, a rotation has
\* replaced it as the current key, and it is still valid.
C7_Witness ==
    \E e \in issued :
        /\ now = e.t + 60
        /\ keys[key_index].aes_key # e.key
        /\ e.key \in get_valid_keys(keys, now)

C10_RotationOverwritesExpiredSlot ==
    [][Rotation => keys[key_index'].valid_until < now]_vars

\* C10 witness: a rotation has overwritten a slot an earlier rotation filled.
C10_Witness ==
    /\ rng > IN_MEMORY_KEY_STORAGE_COUNT
    /\ IsSome(ret)
    /\ Unwrap(ret).key.valid_until = now + 900

(***************************************************************************)
(* Session manager: networking/session_manager.rs, and the connection      *)
(* thread that BdSocket::listen spawns (networking/bd_socket.rs:68-73).    *)
(* Every thread runs register_session, handle_connection and               *)
(* unregister_session; the steps of register_session are separate actions  *)
(* so that threads interleave wherever the mutex lets them.                *)
(***************************************************************************)
\* Mutant: the counter is read and written without mutual exclusion.
AlwaysFree(holder) == TRUE

\* Mutex::lock() returns once no other thread holds the guard.
MutexFree(holder) == holder = 0

\* Mutant: the counter is not advanced.
SameSessionId(c) == c

\* `*session_counter += 1` on a u64; the 2^64 registrations that overflow it
\* lie outside every behaviour followed here.
NextSessionId(c) == c + 1

\* Positions at which the thread's session carries the id register_session
\* gave it.
HasId == {"incr", "peer", "callbacks", "registered", "in_handler", "served", "done",
          "panicked_reg", "panicked_serve"}

\* self.session_id_counter.lock().unwrap(): panics when the mutex is poisoned.
RegLock(t) ==
    /\ pc[t] = "spawned"
    /\ MutexFree(counter_lock)
    /\ IF poisoned
       THEN /\ pc' = [pc EXCEPT ![t] = "panicked_lock"]
            /\ UNCHANGED counter_lock
       ELSE /\ pc' = [pc EXCEPT ![t] = "assign"]
            /\ counter_lock' = t
    /\ UNCHANGED <<session_id_counter, poisoned, sid>>
    /\ UNCHANGED serveVars
    /\ UNCHANGED keyVars
    /\ UNCHANGED lobbyVars
    /\ UNCHANGED <<orderVars, codecVars, groupVars, wireVars>>

\* session.id = *session_counter
RegAssign(t) ==
    /\ pc[t] = "assign"
    /\ sid' = [sid EXCEPT ![t] = session_id_counter]
    /\ pc' = [pc EXCEPT ![t] = "incr"]
    /\ UNCHANGED <<session_id_counter, counter_lock, poisoned>>
    /\ UNCHANGED serveVars
    /\ UNCHANGED keyVars
    /\ UNCHANGED lobbyVars
    /\ UNCHANGED <<orderVars, codecVars, groupVars, wireVars>>

\* *session_counter += 1
RegIncrement(t) ==
    /\ pc[t] = "incr"
    /\ session_id_counter' = NextSessionId(session_id_counter)
    /\ pc' = [pc EXCEPT ![t] = "peer"]
    /\ UNCHANGED <<counter_lock, poisoned, sid>>
    /\ UNCHANGED serveVars
    /\ UNCHANGED keyVars
    /\ UNCHANGED lobbyVars
    /\ UNCHANGED <<orderVars, codecVars, groupVars, wireVars>>

\* session.peer_addr().unwrap(): the address of a socket the peer has already
\* reset cannot be read, and the thread panics holding the counter's guard.
RegPeerAddr(t) ==
    /\ pc[t] = "peer"
    /\ \E ok \in BOOLEAN :
        IF ok
        THEN /\ pc' = [pc EXCEPT ![t] = "callbacks"]
             /\ UNCHANGED <<counter_lock, poisoned>>
        ELSE /\ pc' = [pc EXCEPT ![t] = "panicked_reg"]
             /\ counter_lock' = IF counter_lock = t THEN 0 ELSE counter_lock
             /\ poisoned' = TRUE
    /\ UNCHANGED <<session_id_counter, sid>>
    /\ UNCHANGED serveVars
    /\ UNCHANGED keyVars
    /\ UNCHANGED lobbyVars
    /\ UNCHANGED <<orderVars, codecVars, groupVars, wireVars>>

\* The register callbacks run, then the function returns and drops the guard
\* of session_id_counter.
RegCallbacks(t) ==
    /\ pc[t] = "callbacks"
    /\ pc' = [pc EXCEPT ![t] = "registered"]
    /\ counter_lock' = IF counter_lock = t THEN 0 ELSE counter_lock
    /\ UNCHANGED <<session_id_counter, poisoned, sid>>
    /\ UNCHANGED serveVars
    /\ UNCHANGED keyVars
    /\ UNCHANGED lobbyVars
    /\ UNCHANGED <<orderVars, codecVars, groupVars, wireVars>>

\* Mutant: the handler map sits behind a Mutex, one thread at a time.
OneReader(readers) == readers = {}

\* self.lobby_handlers.read(): a read guard of the RwLock is given while no
\* writer holds it, to any number of threads; add_service, the only writer,
\* runs before the socket listens.
ReadGuardAvailable(readers) == TRUE

\* Mutant: TRANSACTION_ID_COUNTER is one static shared by all threads.
SharedSlot(t) == 1

\* thread_local!: every thread that touches TRANSACTION_ID_COUNTER has its
\* own instance.
Slot(t) == t

\* TaskReply::next_transaction_id on the thread's counter: the value handed
\* out and the counter after it.
next_transaction_id(counters, t) ==
    [res |-> counters[Slot(t)],
     counters |-> [counters EXCEPT ![Slot(t)] = counters[Slot(t)] + 1]]

\* connection_loop read a message and LobbyServer::handle_message took the
\* read guard of lobby_handlers; the thread is now inside the handler, where
\* it may stay for any time.
RegEnterHandler(t) ==
    /\ pc[t] = "registered"
    /\ Len(replies[t]) < MaxReplies
    /\ ReadGuardAvailable(lobby_readers)
    /\ lobby_readers' = lobby_readers \cup {t}
    /\ pc' = [pc EXCEPT ![t] = "in_handler"]
    /\ UNCHANGED <<session_id_counter, counter_lock, poisoned, sid, tx_counters, replies>>
    /\ UNCHANGED keyVars
    /\ UNCHANGED lobbyVars
    /\ UNCHANGED <<orderVars, codecVars, groupVars, wireVars>>

\* The handler returns its response, a TaskReply or a reply that carries no
\* transaction id; it is sent on the thread's session and the read guard is
\* dropped at the end of handle_message.
RegHandlerReturn(t) ==
    /\ pc[t] = "in_handler"
    /\ \E task_reply \in BOOLEAN :
        IF task_reply
        THEN LET r == next_transaction_id(tx_counters, t)
             IN  /\ tx_counters' = r.counters
                 /\ replies' = [replies EXCEPT ![t] = Append(replies[t], r.res)]
        ELSE UNCHANGED <<tx_counters, replies>>
    /\ lobby_readers' = lobby_readers \ {t}
    /\ pc' = [pc EXCEPT ![t] = "registered"]
    /\ UNCHANGED <<session_id_counter, counter_lock, poisoned, sid>>
    /\ UNCHANGED keyVars
    /\ UNCHANGED lobbyVars
    /\ UNCHANGED <<orderVars, codecVars, groupVars, wireVars>>

\* BdSocket::handle_connection returns (peer close or error).
RegServe(t) ==
    /\ pc[t] = "registered"
    /\ pc' = [pc EXCEPT ![t] = "served"]
    /\ UNCHANGED <<session_id_counter, counter_lock, poisoned, sid>>
    /\ UNCHANGED serveVars
    /\ UNCHANGED keyVars
    /\ UNCHANGED lobbyVars
    /\ UNCHANGED <<orderVars, codecVars, groupVars, wireVars>>

\* BdSocket::handle_connection panics (a slice of BdMessage::new out of range,
\* an unwrap or expect in a handler): the thread unwinds out of the closure.
RegServePanic(t) ==
    /\ pc[t] = "registered"
    /\ pc' = [pc EXCEPT ![t] = "panicked_serve"]
    /\ UNCHANGED <<session_id_counter, counter_lock, poisoned, sid>>
    /\ UNCHANGED serveVars
    /\ UNCHANGED keyVars
    /\ UNCHANGED lobbyVars
    /\ UNCHANGED <<orderVars, codecVars, groupVars, wireVars>>

\* session_manager.unregister_session(&session)
RegUnregister(t) ==
    /\ pc[t] = "served"
    /\ pc' = [pc EXCEPT ![t] = "done"]
    /\ UNCHANGED <<session_id_counter, counter_lock, poisoned, sid>>
    /\ UNCHANGED serveVars
    /\ UNCHANGED keyVars
    /\ UNCHANGED lobbyVars
    /\ UNCHANGED <<orderVars, codecVars, groupVars, wireVars>>

InitReg ==
    /\ now = StartTime
    /\ clock = [step |-> 0, end |-> StartTime]
    /\ InitKeyStore
    /\ InitLobbyIdle
    /\ session_id_counter = 0
    /\ counter_lock = 0
    /\ poisoned = FALSE
    /\ pc = [t \in Threads |-> "spawned"]
    /\ sid = [t \in Threads |-> 0]
    /\ InitServe

NextReg ==
    \E t \in Threads :
        \/ RegLock(t)
        \/ RegAssign(t)
        \/ RegIncrement(t)
        \/ RegPeerAddr(t)
        \/ RegCallbacks(t)
        \/ RegServe(t)
        \/ RegServePanic(t)
        \/ RegUnregister(t)

SpecReg == InitReg /\ [][NextReg]_vars

\* Connections being served: all threads but the last have registered their
\* sessions, in the order of their numbers, and stand in connection_loop; the
\* last connection has just been accepted and its thread spawned.
InitServing ==
    /\ now = StartTime
    /\ clock = [step |-> 0, end |-> StartTime]
    /\ InitKeyStore
    /\ InitLobbyIdle
    /\ session_id_counter = NThreads - 1
    /\ counter_lock = 0
    /\ poisoned = FALSE
    /\ pc = [t \in Threads |-> IF t = NThreads THEN "spawned" ELSE "registered"]
    /\ sid = [t \in Threads |-> IF t = NThreads THEN 0 ELSE t - 1]
    /\ InitServe

NextServing ==
    \E t \in Threads :
        \/ RegLock(t)
        \/ RegAssign(t)
        \/ RegIncrement(t)
        \/ RegPeerAddr(t)
        \/ RegCallbacks(t)
        \/ RegEnterHandler(t)
        \/ RegHandlerReturn(t)
        \/ RegServe(t)
        \/ RegUnregister(t)

SpecServing == InitServing /\ [][NextServing]_vars

\* The threads whose session has been given its id by register_session.
Assigned == {t \in Threads : pc[t] \in HasId}

\* C5: the ids given to the N sessions registered so far, by threads in any
\* interleaving, are exactly 0..N-1 and no two sessions have the same id.
C5_IdsAreZeroToNMinusOne ==
    /\ {sid[t] : t \in Assigned} = 0 .. (Cardinality(Assigned) - 1)
    /\ \A t, u \in Assigned : sid[t] = sid[u] => t = u

\* C5 witness: every thread has registered its session, the last one while
\* the others were past registration.
C5_Witness ==
    /\ \A t \in Threads : pc[t] \in {"registered", "served", "done"}
    /\ {sid[t] : t \in Threads} = 0 .. (NThreads - 1)
    /\ sid[1] = NThreads - 1

\* How often the thread has called unregister_session: the call is the last
\* statement of the closure, made once on the way to "done".
UnregisterCalls(t) == IF pc[t] = "done" THEN 1 ELSE 0

\* C12: for every accepted connection whose session was registered,
\* unregister_session has been called exactly once when the connection thread
\* has ended, on any exit path (return of handle_connection or abnormal
\* termination of the handler).
C12_UnregisteredOnEveryExit ==
    \A t \in Threads :
        pc[t] \in {"done", "panicked_serve"} => UnregisterCalls(t) = 1

\* C23: SessionManager runs the registration and unregistration callbacks
\* while holding none of its own locks, so that the callbacks of two sessions
\* can run at the same time.
C23_CallbacksUnderNoLock ==
    \A t \in Threads : pc[t] = "callbacks" => counter_lock # t

\* C24: a handler that blocks while serving one session delays only that
\* session: while thread u stays inside a handler, any other thread is still
\* registered (the counter's mutex is free or held by a registering thread,
\* never by u), has its next message dispatched, and has its handler's reply
\* sent.
C24_SlowHandlerStallsOwnSessionOnly ==
    \A u \in Threads :
        pc[u] = "in_handler"
        => \A t \in Threads \ {u} :
               /\ pc[t] = "spawned"
                     => (ENABLED RegLock(t)) \/ counter_lock \notin {0, u}
               /\ (pc[t] = "registered" /\ Len(replies[t]) < MaxReplies)
                     => ENABLED RegEnterHandler(t)
               /\ pc[t] = "in_handler" => ENABLED RegHandlerReturn(t)

\* C24 witness: two threads are inside handlers at once, and the connection
\* accepted last has been registered, has had its messages answered and has
\* ended.
C24_Witness ==
    /\ pc[1] = "in_handler"
    /\ pc[2] = "in_handler"
    /\ lobby_readers = {1, 2}
    /\ replies[1] = <<>>
    /\ pc[NThreads] = "done"
    /\ sid[NThreads] = NThreads - 1
    /\ Len(replies[NThreads]) = MaxReplies

\* C25: within one session (one connection thread) the transaction ids of the
\* TaskReplies created one after the other start at 0 and go up by exactly 1,
\* whatever TaskReplies other sessions create in between.
C25_TransactionIdsPerSession ==
    \A t \in Threads : \A i \in DOMAIN replies[t] : replies[t][i] = i - 1

\* C25 witness: two sessions have each created the TaskReplies 0 and 1 while a
\* third has created its first.
C25_Witness ==
    /\ replies[1] = <<0, 1>>
    /\ replies[2] = <<0, 1>>
    /\ replies[NThreads] = <<0>>
    /\ pc[NThreads] = "in_handler"

(***************************************************************************)
(* Titles, session keys and opaque proofs: domain/title.rs,                *)
(* auth/auth_proof.rs, auth/auth_handler/steam.rs                          *)
(***************************************************************************)
\* enum Title
Title == {18409, 18301, 18395, 18396, 18397, 18480}

\* Title ids a client sends: two known titles and an unknown one.
TitleInputs == {18409, 18301, 999}

\* The title the client authenticates for at the Auth server.
IssuedTitles == {18409}

\* 24-byte 3DES session keys a client may choose.
SessionKeys == {"kA", "kB"}

\* const TICKET_ISSUE_LENGTH: i64 = 5 * 60 * 1000, added to epoch seconds.
TICKET_ISSUE_LENGTH == 5 * 60 * 1000

\* const MAGIC: u64 = 0xC0FFEEFFEEAA1337, as four 16-bit words.
MAGIC == <<49407, 61183, 61098, 4919>>

\* Usernames are sequences of non-zero bytes; "bob" and "eve".
Bob == <<98, 111, 98>>

Eve == <<101, 118, 101>>

\* Width of the username field of the proof's plaintext.
UsernameField == 64

\* struct ClientOpaqueAuthProof
ClientOpaqueAuthProof(title, time_expires, license_id, user_id, session_key, username) ==
    [title |-> title, time_expires |-> time_expires, license_id |-> license_id,
     user_id |-> user_id, session_key |-> session_key, username |-> username]

\* The username bytes followed by `for _ in username_bytes.len()..64` zeros.
PadUsername(username) ==
    [i \in 1 .. (IF Len(username) > UsernameField THEN Len(username) ELSE UsernameField) |->
        IF i <= Len(username) THEN username[i] ELSE 0]

\* vec.len() before encryption: magic, title, time_expires, license_id,
\* user_id, session_key, padded username and the 4 pad bytes.
SerializedLen(p) == 8 + 4 + 8 + 8 + 8 + 24 + Len(PadUsername(p.username)) + 4

\* BackendPrivateKey::encrypt_data: AES-256 block by block; the ciphertext is
\* the plaintext fields under the key aes, of the same length.  magic tells
\* whether the plaintext starts with MAGIC.
encrypt_data(magic, p, username_buffer, aes) ==
    [aes_key |-> aes, magic |-> magic = MAGIC, title |-> p.title,
     time_expires |-> p.time_expires, license_id |-> p.license_id,
     user_id |-> p.user_id, session_key |-> p.session_key, username |-> username_buffer]

\* ClientOpaqueAuthProof::serialize with the key get_current_key() returned.
serialize(p, aes) == encrypt_data(MAGIC, p, PadUsername(p.username), aes)

\* The proof SteamAuthHandler builds at time t for a request.
SteamProof(title, steam_id, skey, username, t) ==
    ClientOpaqueAuthProof(title, t + TICKET_ISSUE_LENGTH, 1234, steam_id, skey, username)

\* The 128 bytes SteamAuthHandler seals at time t with the key store's key aes.
SealedProof(aes, title, skey, t) == serialize(SteamProof(title, 77, skey, Bob, t), aes)

\* 128 bytes a client makes up itself: noise, and a well-formed plaintext
\* encrypted under the all-zero AES key of InMemoryKey::empty(), which the
\* client knows.
ForgedProof(aes, magic) ==
    encrypt_data(IF magic THEN MAGIC ELSE <<0, 0, 0, 0>>,
                 ClientOpaqueAuthProof(18409, StartTime + TICKET_ISSUE_LENGTH, 1234, 1, "kB", Eve),
                 PadUsername(Eve), aes)

\* Key -1 stands for no key at all: random bytes.
ForgedProofs == {ForgedProof(0, TRUE), ForgedProof(-1, FALSE)}

\* key.decrypt_data on the proof: the plaintext under the sealing key, bytes
\* that do not start with MAGIC under any other key.
DecryptsToMagic(proof, aes) == proof.aes_key = aes /\ proof.magic

\* get_valid_keys() as the Vec it is: the valid slots in index order.
ValidKeySeq(ks, t) ==
    LET valid == ValidSlots(ks, t)
        nth[i \in 0 .. Cardinality(valid)] ==
            IF i = 0 THEN -1
            ELSE CHOOSE s \in valid :
                     /\ s > nth[i - 1]
                     /\ \A u \in valid : u > nth[i - 1] => s <= u
    IN  [i \in 1 .. Cardinality(valid) |-> ks[nth[i]].aes_key]

\* Mutant: every key is tried, last_buf is what the last one left.
LastTried(proof, keyseq) == IF keyseq = <<>> THEN 0 ELSE Len(keyseq)

\* `.iter().any(|key| ..)`: the index of the first key under which the copy
\* of buf decrypts to MAGIC, 0 when there is none; last_buf is then the
\* plaintext under that key.
FirstMatch(proof, keyseq) ==
    IF \E i \in DOMAIN keyseq : DecryptsToMagic(proof, keyseq[i])
    THEN CHOOSE i \in DOMAIN keyseq :
             /\ DecryptsToMagic(proof, keyseq[i])
             /\ \A j \in DOMAIN keyseq : DecryptsToMagic(proof, keyseq[j]) => i <= j
    ELSE 0

\* Mutant: the whole username field is taken, zeros included.
WholeField(buffer) == Len(buffer) + 1

\* username_buffer.iter().position(|&v| v == 0).unwrap_or(64), counted from 1.
UsernameEnd(buffer) ==
    IF \E i \in DOMAIN buffer : buffer[i] = 0
    THEN CHOOSE i \in DOMAIN buffer :
             buffer[i] = 0 /\ \A j \in DOMAIN buffer : buffer[j] = 0 => i <= j
    ELSE Len(buffer) + 1

\* ClientOpaqueAuthProof::deserialize: the first key of get_valid_keys() that
\* yields the magic gives last_buf, which is parsed; else UnknownKeyError.
deserialize(proof, ks, t) ==
    LET keyseq == ValidKeySeq(ks, t)
        m == FirstMatch(proof, keyseq)
    IN  IF m # 0 /\ DecryptsToMagic(proof, keyseq[m])
        THEN IF proof.title \in Title
             THEN [ok |-> TRUE, error |-> "",
                   proof |-> ClientOpaqueAuthProof(
                                 proof.title, proof.time_expires, proof.license_id,
                                 proof.user_id, proof.session_key,
                                 SubSeq(proof.username, 1, UsernameEnd(proof.username) - 1))]
             ELSE [ok |-> FALSE, error |-> "UnknownTitleError", proof |-> proof]
        ELSE [ok |-> FALSE, error |-> "UnknownKeyError", proof |-> proof]

(***************************************************************************)
(* Inbound frames: messaging/bd_message.rs                                 *)
(***************************************************************************)
\* Payloads a client sends after the flag byte (and, when encrypted, after
\* seed and HMAC).  The first byte is the service id.
NoBody == [kind |-> "none", task |-> 0, title |-> 0, proof |-> ForgedProof(-1, FALSE)]

\* `u8 task_id ...` of a service call.
TaskBody(task) == [kind |-> "task", task |-> task, title |-> 0, proof |-> ForgedProof(-1, FALSE)]

\* `bit 1 | u32 title | u32 iv_seed | 128 bytes` of the Lobby auth envelope.
AuthBody(title, proof) == [kind |-> "auth", task |-> 0, title |-> title, proof |-> proof]

\* A payload of no bytes has service -1.
EmptyPayload == [service |-> -1, body |-> NoBody]

\* Service id bytes a client sends: LobbyService, Counter (registered), Teams
\* (no handler registered) and 0xFF (no member of LobbyServiceId).
ServiceInputs == {7, 23, 3, 255}

Payloads(ps) ==
    {EmptyPayload}
    \cup {[service |-> sv, body |-> NoBody] : sv \in {7, 23}}
    \cup {[service |-> sv, body |-> TaskBody(2)] : sv \in ServiceInputs \ {7}}
    \cup {[service |-> 7, body |-> AuthBody(ti, pr)] :
             ti \in TitleInputs, pr \in ps \cup ForgedProofs}

\* The payloads a client sends encrypted: a service call and the Lobby auth
\* envelope with a proof it was given.
EncryptedPayloads(ps) ==
    {[service |-> 23, body |-> TaskBody(2)]}
    \cup {[service |-> 7, body |-> AuthBody(pr.title, pr)] : pr \in ps}

\* calculate_hmac(data, key): a keyed digest, here the pair itself.
calculate_hmac(data, key) == <<data, key>>

\* The bytes after the message-type byte, over which the HMAC is computed.
AfterTypeByte(payload) == payload.body

\* Body lengths (the frame header) of encrypted frames too short to hold seed,
\* HMAC and a type byte; 13 is the shortest length that holds them.
ShortLens == {1, 5, 9}

\* An encrypted frame: flag 1, seed, then 3DES-CBC under key of the 4-byte
\* hmac followed by the payload.  len is the frame header.
CipherFrame(key, hmac, payload, len) ==
    [encrypted |-> 1, len |-> len, key |-> key, hmac |-> hmac, payload |-> payload]

\* An unencrypted frame: flag 0, then the payload.
PlainFrame(payload) ==
    [encrypted |-> 0, len |-> 13, key |-> "", hmac |-> <<NoBody, "">>, payload |-> payload]

\* The frames a client may send when the Auth server has given out ps: an
\* encrypted frame carries the HMAC under the key it was encrypted with, or a
\* wrong one.
Frames(ps) ==
    {PlainFrame(p) : p \in Payloads(ps)}
    \cup UNION {{CipherFrame(k, calculate_hmac(AfterTypeByte(p), hk), p, 13) :
                     hk \in {k, "forged"}, p \in EncryptedPayloads(ps)} :
                 k \in SessionKeys}
    \cup {CipherFrame(k, <<NoBody, "">>, EmptyPayload, n) : k \in {"kA"}, n \in ShortLens}

\* decrypt_buffer_in_place(&mut buf[5..], session_key, iv): the sender's
\* plaintext under the sender's key, and under any other key bytes whose first
\* four are not the HMAC of the rest.
decrypt_buffer_in_place(frame, key) ==
    IF frame.key = key
    THEN [hmac |-> frame.hmac, payload |-> frame.payload]
    ELSE [hmac |-> <<NoBody, "noise">>, payload |-> [service |-> 255, body |-> NoBody]]

\* Mutant: the HMAC is not compared.
HmacIgnored(hmac, expected_hmac) == TRUE

\* ensure!(hmac == expected_hmac, InvalidHmacSnafu)
HmacMatches(hmac, expected_hmac) == hmac = expected_hmac

\* BdMessage::new(session, buf).  Result kinds: "ok" with the payload handed
\* to the reader, "err" with the error, "panic" where a slice is out of range.
BdMessage_new(authentication, frame) ==
    IF frame.encrypted > 0
    THEN IF ~IsSome(authentication)
         THEN [kind |-> "err", error |-> "NoSessionKeyError", payload |-> EmptyPayload]
         ELSE IF frame.len < 5
         THEN [kind |-> "panic", error |-> "buf[1..5]", payload |-> EmptyPayload]
         ELSE IF (frame.len - 5) % 8 # 0
         THEN [kind |-> "err", error |-> "decrypt", payload |-> EmptyPayload]
         ELSE IF frame.len < 10
         THEN [kind |-> "panic", error |-> "buf[5..9]", payload |-> EmptyPayload]
         ELSE LET key == Unwrap(authentication).session_key
                  plain == decrypt_buffer_in_place(frame, key)
                  expected_hmac == calculate_hmac(AfterTypeByte(plain.payload), key)
              IN  IF HmacMatches(plain.hmac, expected_hmac)
                  THEN [kind |-> "ok", error |-> "", payload |-> plain.payload]
                  ELSE [kind |-> "err", error |-> "InvalidHmacError", payload |-> EmptyPayload]
    ELSE [kind |-> "ok", error |-> "", payload |-> frame.payload]

(***************************************************************************)
(* Replies: lobby/response/task_reply.rs, response/lsg_reply.rs,           *)
(* messaging/bd_response.rs                                                *)
(***************************************************************************)
\* TaskReply::with_only_error_code(error_code, operation_id).to_response()
TaskReply(transaction_id, error_code, operation_id) ==
    [message_type |-> 1, transaction_id |-> transaction_id, error_code |-> error_code,
     operation_id |-> operation_id, num_results |-> 0, total_num_results |-> 0,
     connection_id |-> 0, should_encrypt |-> TRUE]

\* ConnectionIdResponse::new(connection_id).to_response()
ConnectionIdResponse(connection_id) ==
    [message_type |-> 4, transaction_id |-> 0, error_code |-> "", operation_id |-> 0,
     num_results |-> 0, total_num_results |-> 0,
     connection_id |-> connection_id, should_encrypt |-> TRUE]

\* Mutant: every response is written as an unencrypted frame.
send_unencrypted(response, authentication) ==
    [encrypted |-> 0, key |-> "", data |-> response]

\* BdResponse::send: what goes on the wire, encrypted under the session key
\* when the response asks for it and the session has one.
send(response, authentication) ==
    IF response.should_encrypt /\ IsSome(authentication)
    THEN [encrypted |-> 1, key |-> Unwrap(authentication).session_key, data |-> response]
    ELSE [encrypted |-> 0, key |-> "", data |-> response]

(***************************************************************************)
(* Lobby dispatcher and LobbyService handler: lobby/mod.rs,                *)
(* lobby/service/lobby.rs                                                  *)
(***************************************************************************)
\* enum LobbyServiceId
LobbyServiceId ==
    {3, 4, 6, 7, 8, 9, 10, 11, 12, 15, 18, 19, 21, 22, 23, 27, 28, 29, 31, 33, 35, 36,
     38, 50, 52, 55, 57, 58, 66, 67, 68, 81, 82}

\* The keys of lobby_handlers after startup: LobbyService from
\* LobbyServer::new, the others from configure_lobby_server.
lobby_handlers == {7, 38, 18, 50, 23, 27, 28, 81, 8, 68, 10, 12, 55}

\* Mutant: a handler is found for every service id.
EveryServiceHasHandler(service_id) == TRUE

\* `handlers.get(&service_id)` is Some
HasHandler(service_id) == service_id \in lobby_handlers

\* The LobbyService handler is the one handler that does not ask for a session
\* that is already authenticated.
LsgRequiresAuthentication == FALSE

\* LobbyHandler::requires_authentication: true unless a handler overrides it.
requires_authentication(service_id) ==
    IF service_id = 7 THEN LsgRequiresAuthentication ELSE TRUE

\* Mutant: nothing is refused.
NeverDenied(service_id, authentication) == FALSE

\* `handler.requires_authentication() && session.authentication().is_none()`
AccessIsDenied(service_id, authentication) ==
    requires_authentication(service_id) /\ ~IsSome(authentication)

\* Mutant: the title of the message is not compared with the proof's.
AnyTitle(proof_title, title) == TRUE

\* ensure!(auth_proof.title == title, InvalidTitleSnafu)
TitleMatches(proof_title, title) == proof_title = title

\* ensure!(auth_proof.time_expires >= now, AuthenticationExpiredSnafu)
NotExpired(time_expires, t) == time_expires >= t

\* Mutant: the session key of the first authentication is kept.
KeepAuthentication(authentication, proof) ==
    IF IsSome(authentication) THEN authentication
    ELSE Some([user_id |-> proof.user_id, username |-> proof.username,
               session_key |-> proof.session_key, title |-> proof.title])

\* session.authentication = Some(SessionAuthentication { .. })
SetAuthentication(authentication, proof) ==
    Some([user_id |-> proof.user_id, username |-> proof.username,
          session_key |-> proof.session_key, title |-> proof.title])

\* What a handler or the dispatcher hands back: the session's authentication
\* afterwards, the response to send (None when it failed) and the error.
Outcome(authentication, response, error, tx) ==
    [authentication |-> authentication, response |-> response, error |-> error, tx |-> tx]

\* LobbyServiceHandler::handle_message on the session (id, authentication) at
\* time t with key store ks.
LobbyServiceHandler_handle_message(id, authentication, body, ks, t, tx) ==
    IF body.kind # "auth"
    THEN Outcome(authentication, None, "UnexpectedEndOfMessage", tx)
    ELSE IF body.title \notin Title
    THEN Outcome(authentication, None, "UnknownTitleError", tx)
    ELSE LET d == deserialize(body.proof, ks, t)
         IN  IF ~d.ok
             THEN Outcome(authentication, None, d.error, tx)
             ELSE IF ~NotExpired(d.proof.time_expires, t)
             THEN Outcome(authentication, None, "AuthenticationExpiredError", tx)
             ELSE IF ~TitleMatches(d.proof.title, body.title)
             THEN Outcome(authentication, None, "InvalidTitleError", tx)
             ELSE Outcome(SetAuthentication(authentication, d.proof),
                          Some(ConnectionIdResponse(id)), "", tx)

\* Any other registered handler (service business logic): it reads the task
\* id and answers with a TaskReply, or fails; it leaves the session alone.
ServiceHandler_handle_message(authentication, body, succeeds, tx) ==
    IF body.kind = "task" /\ succeeds
    THEN Outcome(authentication, Some(TaskReply(tx, "NoError", body.task)), "", tx + 1)
    ELSE Outcome(authentication, None, "HandlerError", tx)

\* LobbyServer::handle_message.  invoked is the service whose handler ran, or
\* None.
LobbyServer_handle_message(id, authentication, payload, ks, t, tx, succeeds) ==
    IF payload = EmptyPayload
    THEN [invoked |-> None, out |-> Outcome(authentication, None, "UnexpectedEndOfMessage", tx)]
    ELSE IF payload.service \notin LobbyServiceId
    THEN [invoked |-> None, out |-> Outcome(authentication, None, "IllegalServiceIdError", tx)]
    ELSE IF HasHandler(payload.service)
    THEN IF AccessIsDenied(payload.service, authentication)
         THEN [invoked |-> None,
               out |-> Outcome(authentication, Some(TaskReply(tx, "AccessDenied", 0)), "", tx + 1)]
         ELSE [invoked |-> Some(payload.service),
               out |-> IF payload.service = 7
                       THEN LobbyServiceHandler_handle_message(
                                id, authentication, payload.body, ks, t, tx)
                       ELSE ServiceHandler_handle_message(
                                authentication, payload.body, succeeds, tx)]
    ELSE [invoked |-> None,
          out |-> Outcome(authentication, Some(TaskReply(tx, "ServiceNotAvailable", 0)), "", tx + 1)]

(***************************************************************************)
(* One Lobby connection: networking/bd_socket.rs                           *)
(***************************************************************************)
\* One turn of connection_loop for a header that is a message length: the body
\* is read, BdMessage::new opens it, the dispatcher handles it and the reply is
\* sent.  An error ends the loop, a panic ends the thread.
Turn(frame, succeeds) ==
    LET message == BdMessage_new(session.authentication, frame)
        handled == LobbyServer_handle_message(
                       session.id, session.authentication, message.payload,
                       keys, now, TRANSACTION_ID_COUNTER, succeeds)
        dispatched == message.kind = "ok"
        out == IF dispatched THEN handled.out
               ELSE Outcome(session.authentication, None, message.error,
                            TRANSACTION_ID_COUNTER)
    IN  /\ session' = [session EXCEPT !.authentication = out.authentication]
        /\ TRANSACTION_ID_COUNTER' = out.tx
        /\ conn' = IF message.kind = "panic" THEN "panicked"
                   ELSE IF out.error # "" THEN "closed"
                   ELSE "open"
        /\ last_in' = Some(frame)
        /\ last_out' = Some([dispatched |-> dispatched,
                             service |-> IF dispatched THEN message.payload.service ELSE -1,
                             invoked |-> IF dispatched THEN handled.invoked ELSE None,
                             wire |-> IF IsSome(out.response)
                                      THEN Some(send(Unwrap(out.response), out.authentication))
                                      ELSE None,
                             error |-> out.error,
                             result |-> message.kind])
        /\ msgs' = msgs + 1

\* The connection loop takes the next message frame off the connection; the
\* peer may have sent any frame.
HandleFrame ==
    /\ conn = "open"
    /\ msgs < MaxMsgs
    /\ \E frame \in Frames(proofs), succeeds \in BOOLEAN : Turn(frame, succeeds)
    /\ UNCHANGED proofs
    /\ UNCHANGED keyVars
    /\ UNCHANGED regVars
    /\ UNCHANGED <<orderVars, codecVars, groupVars, wireVars>>

\* session.read returns 0: the peer closed the connection and the loop ends.
PeerClose ==
    /\ conn = "open"
    /\ conn' = "closed"
    /\ UNCHANGED <<proofs, session, msgs, TRANSACTION_ID_COUNTER, last_in, last_out>>
    /\ UNCHANGED keyVars
    /\ UNCHANGED regVars
    /\ UNCHANGED <<orderVars, codecVars, groupVars, wireVars>>

\* SteamAuthHandler::handle_message on the Auth server, which shares the key
\* store: a proof for the client's title and session key is sealed with the
\* current key and sent to the client.
IssueProof ==
    /\ Cardinality(proofs) < MaxProofs
    /\ \E title \in IssuedTitles, skey \in SessionKeys :
        LET r == get_current_key(keys, key_index, now, rng + 1)
        IN  /\ keys' = r.keys
            /\ key_index' = r.key_index
            /\ rng' = IF r.rotated THEN rng + 1 ELSE rng
            /\ ret' = Some([t |-> now, key |-> r.key])
            /\ issued' = issued \cup {[key |-> r.key.aes_key, t |-> now]}
            /\ proofs' = proofs \cup {SealedProof(r.key.aes_key, title, skey, now)}
    /\ UNCHANGED <<now, clock>>
    /\ UNCHANGED <<session, conn, msgs, TRANSACTION_ID_COUNTER, last_in, last_out>>
    /\ UNCHANGED regVars
    /\ UNCHANGED <<orderVars, codecVars, groupVars, wireVars>>

Init ==
    /\ now = StartTime
    /\ clock \in {[step |-> s, end |-> StartTime + LobbyHorizon] : s \in LobbyClockSteps}
    /\ InitKeyStore
    /\ proofs = {}
    /\ session = [id |-> 0, authentication |-> None]
    /\ conn = "open"
    /\ msgs = 0
    /\ TRANSACTION_ID_COUNTER = 0
    /\ last_in = None
    /\ last_out = None
    /\ inbox = <<>>
    /\ trace = <<>>
    /\ InitCodecIdle
    /\ InitGroupIdle
    /\ InitRegIdle

Next == Tick \/ IssueProof \/ HandleFrame \/ PeerClose

Spec == Init /\ [][Next]_vars

(***************************************************************************)
(* Claims about one Lobby connection, checked under Spec.                  *)
(***************************************************************************)
\* A step in which the connection loop handled a message frame.
Handled == msgs' = msgs + 1

\* C1: a registered handler whose requires_authentication() is true is never
\* invoked for a session whose authentication is unset: the dispatcher sends
\* TaskReply(AccessDenied, operation 0), the session stays unauthenticated
\* and the connection loop keeps running.
C1_UnauthenticatedCallIsDenied ==
    [][(/\ Handled
        /\ Unwrap(last_out').dispatched
        /\ Unwrap(last_out').service \in lobby_handlers
        /\ requires_authentication(Unwrap(last_out').service)
        /\ session.authentication = None)
       => (/\ Unwrap(last_out').invoked = None
           /\ IsSome(Unwrap(last_out').wire)
           /\ Unwrap(Unwrap(last_out').wire).data.message_type = 1
           /\ Unwrap(Unwrap(last_out').wire).data.error_code = "AccessDenied"
           /\ Unwrap(Unwrap(last_out').wire).data.operation_id = 0
           /\ session'.authentication = None
           /\ conn' = "open")]_vars

\* C1 witness: an unauthenticated session called Counter (23) and was denied;
\* the loop is still running.
C1_Witness ==
    /\ IsSome(last_out)
    /\ Unwrap(last_in).payload.service = 23
    /\ Unwrap(last_out).invoked = None
    /\ IsSome(Unwrap(last_out).wire)
    /\ Unwrap(Unwrap(last_out).wire).data.error_code = "AccessDenied"
    /\ session.authentication = None
    /\ conn = "open"

\* The conditions of C2 on the auth envelope in body, at the time of the call.
ProofIsGood(body) ==
    /\ body.kind = "auth"
    /\ body.proof.magic
    /\ \E i \in Slots : keys[i].valid_until >= now /\ keys[i].aes_key = body.proof.aes_key
    /\ body.proof.time_expires >= now
    /\ body.proof.title = body.title

\* C2: the LobbyService handler sets session.authentication only when the
\* proof decrypts to the magic under some key of get_valid_keys(), its
\* time_expires >= now and its title equals the title of the message; in
\* every other case it returns an error, session.authentication is unchanged
\* and no ConnectionId reply is sent.
C2_AuthenticationOnlyFromGoodProof ==
    [][(Handled /\ Unwrap(last_out').invoked = Some(7))
       => LET body == Unwrap(last_in').payload.body
              o == Unwrap(last_out')
          IN  /\ (o.error = "" \/ session'.authentication # session.authentication)
                     => (/\ ProofIsGood(body)
                         /\ Unwrap(session'.authentication).session_key
                                = body.proof.session_key
                         /\ Unwrap(session'.authentication).user_id = body.proof.user_id)
              /\ ~ProofIsGood(body)
                     => (/\ o.error # ""
                         /\ session'.authentication = session.authentication
                         /\ o.wire = None)]_vars

\* C2 witness: the handler accepted a proof; the session carries the proof's
\* session key and the ConnectionId reply went out.
C2_Witness ==
    /\ IsSome(last_out)
    /\ Unwrap(last_out).invoked = Some(7)
    /\ Unwrap(last_out).error = ""
    /\ IsSome(session.authentication)
    /\ Unwrap(session.authentication).session_key
           = Unwrap(last_in).payload.body.proof.session_key
    /\ Unwrap(Unwrap(last_out).wire).data.message_type = 4

\* The HMAC check of C3 on an encrypted frame, for a session holding key.
HmacVerifies(frame, key) ==
    /\ frame.len >= 13
    /\ (frame.len - 5) % 8 = 0
    /\ LET plain == decrypt_buffer_in_place(frame, key)
       IN  plain.hmac = calculate_hmac(AfterTypeByte(plain.payload), key)

\* C3: the payload of a frame with a nonzero encrypted flag reaches a
\* dispatcher only if the session holds a session key and the HMAC in the
\* first 4 decrypted bytes equals the one computed with the session key over
\* the decrypted payload minus its type byte; otherwise nothing is
\* dispatched, no reply is sent and the connection is closed.
C3_EncryptedFrameNeedsKeyAndHmac ==
    [][(Handled /\ Unwrap(last_in').encrypted > 0)
       => LET frame == Unwrap(last_in')
              o == Unwrap(last_out')
              accepted == /\ IsSome(session.authentication)
                          /\ HmacVerifies(frame, Unwrap(session.authentication).session_key)
          IN  /\ o.dispatched => accepted
              /\ ~accepted => (/\ ~o.dispatched
                               /\ o.invoked = None
                               /\ o.wire = None
                               /\ session' = session
                               /\ conn' # "open")]_vars

\* C3 witness: an authenticated session received an encrypted frame with the
\* right HMAC and its payload was dispatched to a handler.
C3_Witness ==
    /\ IsSome(last_out)
    /\ Unwrap(last_in).encrypted = 1
    /\ Unwrap(last_out).dispatched
    /\ IsSome(Unwrap(last_out).invoked)

\* C4: once a session's authentication has been set, no later message changes
\* the session key.
C4_SessionKeyNeverChanges ==
    [][IsSome(session.authentication)
       => (/\ IsSome(session'.authentication)
           /\ Unwrap(session'.authentication).session_key
                  = Unwrap(session.authentication).session_key)]_vars

\* C11: no byte sequence sent by a peer makes the connection thread panic;
\* every malformed or truncated frame ends in an error that closes the
\* connection or in a reply.
C11_NoPeerInputPanics == conn # "panicked"

\* C14: when an authenticated client sends a message whose service id byte is
\* 0xFF, the server replies with an encrypted TaskReply with message type 1,
\* error_code ServiceNotAvailable, operation id 0 and result counts 0 and 0.
C14_UnknownServiceIdGetsServiceNotAvailable ==
    [][(/\ Handled
        /\ Unwrap(last_out').dispatched
        /\ Unwrap(last_out').service = 255
        /\ IsSome(session.authentication))
       => (/\ IsSome(Unwrap(last_out').wire)
           /\ Unwrap(Unwrap(last_out').wire).encrypted = 1
           /\ Unwrap(Unwrap(last_out').wire).data.message_type = 1
           /\ Unwrap(Unwrap(last_out').wire).data.error_code = "ServiceNotAvailable"
           /\ Unwrap(Unwrap(last_out').wire).data.operation_id = 0
           /\ Unwrap(Unwrap(last_out').wire).data.num_results = 0
           /\ Unwrap(Unwrap(last_out').wire).data.total_num_results = 0)]_vars

\* C15: for a service id that is a member of LobbyServiceId and has no
\* registered handler the dispatcher replies TaskReply(ServiceNotAvailable,
\* operation 0) whether or not the session is authenticated, invokes no
\* handler, and the connection loop goes on.
C15_UnregisteredServiceIsNotAvailable ==
    [][(/\ Handled
        /\ Unwrap(last_out').dispatched
        /\ Unwrap(last_out').service \in LobbyServiceId
        /\ Unwrap(last_out').service \notin lobby_handlers)
       => (/\ Unwrap(last_out').invoked = None
           /\ IsSome(Unwrap(last_out').wire)
           /\ Unwrap(Unwrap(last_out').wire).data.message_type = 1
           /\ Unwrap(Unwrap(last_out').wire).data.error_code = "ServiceNotAvailable"
           /\ Unwrap(Unwrap(last_out').wire).data.operation_id = 0
           /\ session' = session
           /\ conn' = "open")]_vars

\* C15 witness: an authenticated session called Teams (3), which has no
\* handler, and was answered ServiceNotAvailable; the loop is still running.
C15_Witness ==
    /\ IsSome(last_out)
    /\ Unwrap(last_out).dispatched
    /\ Unwrap(last_out).service = 3
    /\ Unwrap(last_out).invoked = None
    /\ IsSome(Unwrap(last_out).wire)
    /\ Unwrap(Unwrap(last_out).wire).data.error_code = "ServiceNotAvailable"
    /\ IsSome(session.authentication)
    /\ conn = "open"

(***************************************************************************)
(* Order of processing on one Lobby connection: the peer writes frames     *)
(* ahead of the server (pipelining), the connection loop of                *)
(* BdSocket::handle_connection takes them off the stream one by one.       *)
(***************************************************************************)
\* const MAX_MESSAGE_SIZE: u32 = 0x4000000
MAX_MESSAGE_SIZE == 67108864

\* Mutant: a header of exactly MAX_MESSAGE_SIZE is refused too.
BelowLimit(header) == header < MAX_MESSAGE_SIZE

\* ensure!(header <= MAX_MESSAGE_SIZE, MessageTooLargeSnafu)
WithinLimit(header) == header <= MAX_MESSAGE_SIZE

\* What the peer writes in SpecOrder: a ping (header 0), a buffer hint (header
\* 200 and a u32), or a message frame calling Counter (23), Teams (3, no
\* handler), an illegal service id (255) or LobbyService (7) with a proof it
\* was given.
OrderFrames(ps) ==
    {PlainFrame([service |-> sv, body |-> TaskBody(2)]) : sv \in {23, 3, 255}}
    \cup {PlainFrame([service |-> 7, body |-> AuthBody(pr.title, pr)]) : pr \in ps}

\* The n-th item the peer wrote: its 4-byte header and, for a message, the body.
Item(n, header, frame) == [n |-> n, header |-> header, frame |-> frame]

\* Headers of the message frames the peer sends: the length of the body, and
\* for a Counter call also the largest length accepted and the one above it.
Headers(frame) ==
    IF frame.payload.service = 23
    THEN {frame.len, MAX_MESSAGE_SIZE, MAX_MESSAGE_SIZE + 1}
    ELSE {frame.len}

\* An entry of the trace, for item n: the connection thread read its header
\* ("read"), read the u32 after a header of 200 ("hint"), read the body
\* ("body"), handed the message to the dispatcher ("dispatch"), wrote the
\* reply frame ("reply") or wrote the u32 0 that answers a ping ("pong").
Event(kind, n) == [kind |-> kind, n |-> n]

\* Items the peer has written so far: those read and those still in flight.
Sent == Len(inbox) + Cardinality({i \in DOMAIN trace : trace[i].kind = "read"})

\* Mutant: the item written last is taken first.
NewestFrame(q) == q[Len(q)]

\* session.read / read_exact on the TCP stream yield the bytes written first.
NextFrame(q) == Head(q)

\* What one turn for a message frame adds to the trace: the header, read_exact,
\* then the dispatcher when BdMessage::new succeeded, then the reply when one
\* is sent.
TurnEvents(n, o) ==
    <<Event("read", n), Event("body", n)>>
    \o (IF o.dispatched THEN <<Event("dispatch", n)>> ELSE <<>>)
    \o (IF IsSome(o.wire) THEN <<Event("reply", n)>> ELSE <<>>)

\* The peer writes one more frame; it does not wait for replies.
ClientSend ==
    /\ conn = "open"
    /\ Sent < MaxMsgs
    /\ \E it \in {Item(Sent + 1, h, PlainFrame(EmptyPayload)) : h \in {0, 200}}
                 \cup UNION {{Item(Sent + 1, h, f) : h \in Headers(f)} :
                             f \in OrderFrames(proofs)} :
           inbox' = Append(inbox, it)
    /\ UNCHANGED trace
    /\ UNCHANGED lobbyVars
    /\ UNCHANGED keyVars
    /\ UNCHANGED regVars
    /\ UNCHANGED <<codecVars, groupVars, wireVars>>

\* One turn of connection_loop for header 0: `Ping`, answered by writing 0.
HandlePing ==
    /\ conn = "open"
    /\ inbox # <<>>
    /\ NextFrame(inbox).header = 0
    /\ trace' = trace \o <<Event("read", NextFrame(inbox).n),
                            Event("pong", NextFrame(inbox).n)>>
    /\ inbox' = Tail(inbox)
    /\ UNCHANGED lobbyVars
    /\ UNCHANGED keyVars
    /\ UNCHANGED regVars
    /\ UNCHANGED <<codecVars, groupVars, wireVars>>

\* One turn of connection_loop for header 200: the u32 that follows is read
\* and logged, nothing is written.
HandleBufferHint ==
    /\ conn = "open"
    /\ inbox # <<>>
    /\ NextFrame(inbox).header = 200
    /\ trace' = trace \o <<Event("read", NextFrame(inbox).n),
                            Event("hint", NextFrame(inbox).n)>>
    /\ inbox' = Tail(inbox)
    /\ UNCHANGED lobbyVars
    /\ UNCHANGED keyVars
    /\ UNCHANGED regVars
    /\ UNCHANGED <<codecVars, groupVars, wireVars>>

\* One turn of connection_loop for a header above MAX_MESSAGE_SIZE: ensure!
\* returns MessageTooLargeError before the buffer is made, the loop ends and
\* the session is dropped with the body unread.
HandleTooLarge ==
    /\ conn = "open"
    /\ inbox # <<>>
    /\ NextFrame(inbox).header \notin {0, 200}
    /\ ~WithinLimit(NextFrame(inbox).header)
    /\ trace' = Append(trace, Event("read", NextFrame(inbox).n))
    /\ inbox' = Tail(inbox)
    /\ conn' = "closed"
    /\ UNCHANGED <<proofs, session, msgs, TRANSACTION_ID_COUNTER, last_in, last_out>>
    /\ UNCHANGED keyVars
    /\ UNCHANGED regVars
    /\ UNCHANGED <<codecVars, groupVars, wireVars>>

\* One turn of connection_loop for a message frame taken off the stream.
HandleNext ==
    /\ conn = "open"
    /\ inbox # <<>>
    /\ NextFrame(inbox).header \notin {0, 200}
    /\ WithinLimit(NextFrame(inbox).header)
    /\ \E succeeds \in BOOLEAN : Turn(NextFrame(inbox).frame, succeeds)
    /\ trace' = trace \o TurnEvents(NextFrame(inbox).n, Unwrap(last_out'))
    /\ inbox' = Tail(inbox)
    /\ UNCHANGED proofs
    /\ UNCHANGED keyVars
    /\ UNCHANGED regVars
    /\ UNCHANGED <<codecVars, groupVars, wireVars>>

\* The peer closes while the loop waits for a header: frames it wrote before
\* are read first.
PeerCloseAfterFrames ==
    /\ inbox = <<>>
    /\ PeerClose

InitOrder ==
    /\ now = StartTime
    /\ clock = [step |-> 0, end |-> StartTime]
    /\ InitKeyStore
    /\ proofs = {}
    /\ session = [id |-> 0, authentication |-> None]
    /\ conn = "open"
    /\ msgs = 0
    /\ TRANSACTION_ID_COUNTER = 0
    /\ last_in = None
    /\ last_out = None
    /\ inbox = <<>>
    /\ trace = <<>>
    /\ InitCodecIdle
    /\ InitGroupIdle
    /\ InitRegIdle

NextOrder ==
    \/ IssueProof
    \/ ClientSend
    \/ HandlePing
    \/ HandleBufferHint
    \/ HandleTooLarge
    \/ HandleNext
    \/ PeerCloseAfterFrames

SpecOrder == InitOrder /\ [][NextOrder]_vars

\* Position of an event within the turn for one item.
Rank(kind) ==
    IF kind = "read" THEN 1
    ELSE IF kind \in {"hint", "body"} THEN 2
    ELSE IF kind = "dispatch" THEN 3
    ELSE 4

\* The read events of the trace, in the order they happened.
Reads == SelectSeq(trace, LAMBDA e : e.kind = "read")

\* C13: within one session messages are dispatched in the order their frames
\* arrive, the reply to message i is written before message i+1 is read, and
\* replies appear on the wire in processing order.
C13_ProcessedInArrivalOrder ==
    /\ \A k \in DOMAIN Reads : Reads[k].n = k
    /\ \A i, j \in DOMAIN trace :
          i < j => \/ trace[i].n < trace[j].n
                   \/ (trace[i].n = trace[j].n /\ Rank(trace[i].kind) < Rank(trace[j].kind))

\* C13 witness: on an authenticated session two messages were dispatched and
\* answered in order and a third item has been read.
C13_Witness ==
    /\ Len(Reads) = 3
    /\ \E i, j \in DOMAIN trace :
          /\ i < j
          /\ trace[i] = Event("reply", 1)
          /\ trace[j] = Event("reply", 2)
    /\ Event("dispatch", 1) \in {trace[i] : i \in DOMAIN trace}
    /\ Event("dispatch", 2) \in {trace[i] : i \in DOMAIN trace}
    /\ IsSome(session.authentication)

\* What the step added to the trace.
NewEvents == SubSeq(trace', Len(trace) + 1, Len(trace'))

\* C22: in the frame loop a header of 0 makes the server write exactly one
\* u32 0 and go on; a header of 200 makes it read the u32 that follows and
\* write nothing; any other header above 64 MiB (0x4000000) ends the loop with
\* the connection closed and no body read or dispatched; a header of exactly
\* 64 MiB is accepted and its body read.
C22_HeaderHandling ==
    [][(inbox # <<>> /\ inbox' = Tail(inbox))
       => LET it == Head(inbox)
          IN  /\ it.header = 0
                    => /\ NewEvents = <<Event("read", it.n), Event("pong", it.n)>>
                       /\ conn' = "open"
                       /\ UNCHANGED lobbyVars
              /\ it.header = 200
                    => /\ NewEvents = <<Event("read", it.n), Event("hint", it.n)>>
                       /\ conn' = "open"
                       /\ UNCHANGED lobbyVars
              /\ (it.header \notin {0, 200} /\ it.header > 67108864)
                    => /\ NewEvents = <<Event("read", it.n)>>
                       /\ conn' = "closed"
                       /\ UNCHANGED <<session, msgs, TRANSACTION_ID_COUNTER,
                                      last_in, last_out>>
              /\ it.header = 67108864
                    => /\ Len(NewEvents) >= 2
                       /\ NewEvents[1] = Event("read", it.n)
                       /\ NewEvents[2] = Event("body", it.n)
                       /\ msgs' = msgs + 1
                       /\ last_in' = Some(it.frame)]_vars

\* C22 witness: a ping was answered, a message of exactly 64 MiB was read and
\* dispatched, and a header of 64 MiB + 1 then closed the connection with
\* nothing read after it.
C22_Witness ==
    /\ Len(trace) >= 5
    /\ trace[1] = Event("read", 1)
    /\ trace[2] = Event("pong", 1)
    /\ trace[3] = Event("read", 2)
    /\ trace[4] = Event("body", 2)
    /\ Event("dispatch", 2) \in {trace[i] : i \in DOMAIN trace}
    /\ IsSome(last_in)
    /\ Unwrap(last_in).payload.service = 23
    /\ trace[Len(trace)] = Event("read", 3)
    /\ conn = "closed"
    /\ msgs = 1

(***************************************************************************)
(* Auth server: auth/auth_server.rs, auth/auth_handler/mod.rs,             *)
(* auth/auth_handler/steam.rs, auth_handler/authentication_request.rs,     *)
(* response.rs, result/auth_ticket.rs.  The connection is served by the    *)
(* same BdSocket loop with AuthServer as its message handler; session,     *)
(* conn, msgs, last_in and last_out are those of the Auth connection.      *)
(***************************************************************************)
\* enum AuthMessageType: the codes 0x0 .. 0x29.
AuthMessageType == 0 .. 41

\* AuthMessageType::SteamForMmpRequest = 0x1C
SteamForMmpRequest == 16 + 12

\* AuthMessageType::SteamForMmpReply = 0x1D
SteamForMmpReply == 16 + 13

\* Mutant: the code of the request is sent back.
SameCode(code) == code

\* AuthMessageType::reply_code
reply_code(code) == (code - (code % 2)) + 1

\* The keys of auth_handlers after AuthServer::new.
auth_handlers == {SteamForMmpRequest}

\* const MAX_DATA_LEN: usize = 128
MAX_DATA_LEN == 2 * 64

\* const CUSTOM_TICKET_SIGNATURE: u32 = 0xDEADBABE, as two 16-bit words.
CUSTOM_TICKET_SIGNATURE == <<57005, 47806>>

\* const EXPECTED_SECRET_DATA_SIZE: usize = 24 + 64
EXPECTED_SECRET_DATA_SIZE == 24 + 64

\* A username of n bytes 'A'.
Name(n) == [i \in 1 .. n |-> 65]

\* Bytes of the custom ticket before the username: signature, steam_id,
\* secret_size and session_key.
NameOffset == 4 + 8 + 4 + 24

\* The body of a SteamForMmpRequest after the type byte: the type-checked
\* bit, iv_seed, title id, data_len and data_len bytes of data, which hold
\* the custom ticket: signature, steam_id, secret_size, session_key and the
\* username, followed by a zero byte when terminated.
SteamBody(title_id, data_len, signature, secret_size, session_key, name, terminated) ==
    [kind |-> "steam", title_id |-> title_id, data_len |-> data_len,
     signature |-> signature, steam_id |-> 77, secret_size |-> secret_size,
     session_key |-> session_key, name |-> name, terminated |-> terminated]

\* The length of the custom ticket with this username.
TicketLen(name, terminated) == NameOffset + Len(name) + (IF terminated THEN 1 ELSE 0)

\* Username lengths a client sends.
NameLens == {0, 3, 63, 64}

\* A request SteamAuthHandler accepts, for title 18409 and session key kA.
GoodBody(name, terminated) ==
    SteamBody(18409, TicketLen(name, terminated), CUSTOM_TICKET_SIGNATURE,
              EXPECTED_SECRET_DATA_SIZE, "kA", name, terminated)

\* Requests a client sends, for usernames up to 64 bytes with and without
\* the closing zero byte: the good request and the requests that differ from
\* it in one field: an unknown title, a data_len that cuts the ticket after
\* steam_id or exceeds MAX_DATA_LEN, another signature, another secret size.
SteamBodies ==
    UNION {{GoodBody(Name(n), tm),
            [GoodBody(Name(n), tm) EXCEPT !.title_id = 999],
            [GoodBody(Name(n), tm) EXCEPT !.data_len = 12],
            [GoodBody(Name(n), tm) EXCEPT !.data_len = MAX_DATA_LEN + 1],
            [GoodBody(Name(n), tm) EXCEPT !.signature = <<57005, 48879>>],
            [GoodBody(Name(n), tm) EXCEPT !.secret_size = 24]} :
           n \in NameLens, tm \in BOOLEAN}

\* First payload bytes a client sends: SteamForMmpRequest, its reply code,
\* AccountForMmpRequest (0xA), and 0x2A and 0xFF, which are no codes.
AuthTypeInputs == {SteamForMmpRequest, SteamForMmpReply, 10, 42, 255}

\* The frames a client sends to the Auth server.
AuthFrames ==
    {PlainFrame(EmptyPayload)}
    \cup {PlainFrame([service |-> ty, body |-> NoBody]) : ty \in AuthTypeInputs}
    \cup {PlainFrame([service |-> SteamForMmpRequest, body |-> b]) : b \in SteamBodies}
    \cup {CipherFrame("kA", <<NoBody, "">>, EmptyPayload, 13)}

\* BdReader::read_str on the avail bytes left of the data: read_until(0) stops
\* after the zero byte or at the end of the data, and the last byte read is
\* removed whether or not it is the zero byte.
read_str(name, terminated, avail) ==
    LET taken == IF avail < Len(name) THEN avail ELSE Len(name)
        closed == terminated /\ avail > Len(name)
    IN  IF closed THEN name
        ELSE IF taken = 0 THEN <<>>
        ELSE SubSeq(name, 1, taken - 1)

\* Mutant: the length of the username is not checked.
AnyUsername(username) == TRUE

\* ensure!(username.len() < 64usize, UsernameTooLongSnafu)
UsernameFits(username) == Len(username) < 64

\* CustomSteamAuthenticationRequest::deserialize on data_len bytes of data.
CustomSteamAuthenticationRequest_deserialize(body) ==
    IF body.data_len < 4
    THEN [ok |-> FALSE, error |-> "UnexpectedEndOfMessage", username |-> <<>>]
    ELSE IF body.signature # CUSTOM_TICKET_SIGNATURE
    THEN [ok |-> FALSE, error |-> "SignatureMismatchError", username |-> <<>>]
    ELSE IF body.data_len < 16
    THEN [ok |-> FALSE, error |-> "UnexpectedEndOfMessage", username |-> <<>>]
    ELSE IF body.secret_size # EXPECTED_SECRET_DATA_SIZE
    THEN [ok |-> FALSE, error |-> "UnexpectedSecretLengthError", username |-> <<>>]
    ELSE IF body.data_len < NameOffset
    THEN [ok |-> FALSE, error |-> "UnexpectedEndOfMessage", username |-> <<>>]
    ELSE LET username == read_str(body.name, body.terminated, body.data_len - NameOffset)
         IN  IF UsernameFits(username)
             THEN [ok |-> TRUE, error |-> "", username |-> username]
             ELSE [ok |-> FALSE, error |-> "UsernameTooLongError", username |-> username]

\* AuthenticationRequest::deserialize
AuthenticationRequest_deserialize(body) ==
    IF body.title_id \notin Title
    THEN [ok |-> FALSE, error |-> "UnknownTitleError", username |-> <<>>]
    ELSE IF body.data_len > MAX_DATA_LEN
    THEN [ok |-> FALSE, error |-> "RequestDataTooLongError", username |-> <<>>]
    ELSE CustomSteamAuthenticationRequest_deserialize(body)

\* struct AuthTicket as SteamAuthHandler fills it at time t; `% u32::MAX`
\* leaves every instant before the year 2106 as it is.
AuthTicket(title, steam_id, skey, username, t) ==
    [ticket_type |-> 0, title |-> title, time_issued |-> t,
     time_expires |-> t + TICKET_ISSUE_LENGTH, license_id |-> 1234,
     user_id |-> steam_id, username |-> username, session_key |-> skey]

\* SteamAuthResponse.to_response(): an unencrypted response.
SteamAuthResponse(ticket, serialized_proof_data) ==
    [message_type |-> SteamForMmpReply, error_code |-> "AuthNoError",
     ticket |-> Some(ticket), serialized_proof_data |-> Some(serialized_proof_data),
     should_encrypt |-> FALSE]

\* AuthResponseWithOnlyCode::new(message_type, error_code).to_response()
AuthResponseWithOnlyCode(message_type, error_code) ==
    [message_type |-> message_type, error_code |-> error_code,
     ticket |-> None, serialized_proof_data |-> None, should_encrypt |-> FALSE]

\* What the Auth dispatcher or its handler hands back: the response (None
\* when it failed), the error, the proof it built, and the key store after
\* it with whether get_current_key was called and drew a key.
AuthOutcome(response, error, proof, ks, idx, called, rotated, key) ==
    [response |-> response, error |-> error, proof |-> proof, keys |-> ks,
     key_index |-> idx, called |-> called, rotated |-> rotated, key |-> key]

\* SteamAuthHandler::handle_message at time t on the key store (ks, idx).
SteamAuthHandler_handle_message(body, ks, idx, t, fresh) ==
    IF body.kind # "steam"
    THEN AuthOutcome(None, "UnexpectedEndOfMessage", None, ks, idx, FALSE, FALSE, InMemoryKey_empty)
    ELSE LET request == AuthenticationRequest_deserialize(body)
         IN  IF ~request.ok
             THEN AuthOutcome(None, request.error, None, ks, idx, FALSE, FALSE, InMemoryKey_empty)
             ELSE LET ticket == AuthTicket(body.title_id, body.steam_id, body.session_key,
                                           request.username, t)
                      proof == SteamProof(body.title_id, body.steam_id, body.session_key,
                                          request.username, t)
                      r == get_current_key(ks, idx, t, fresh)
                  IN  AuthOutcome(Some(SteamAuthResponse(ticket, serialize(proof, r.key.aes_key))),
                                  "", Some(proof), r.keys, r.key_index, TRUE, r.rotated, r.key)

\* AuthServer::handle_message.  invoked is the type whose handler ran, or None.
AuthServer_handle_message(payload, ks, idx, t, fresh) ==
    IF payload = EmptyPayload
    THEN [invoked |-> None,
          out |-> AuthOutcome(None, "UnexpectedEndOfMessage", None, ks, idx, FALSE, FALSE,
                              InMemoryKey_empty)]
    ELSE IF payload.service \notin AuthMessageType
    THEN [invoked |-> None,
          out |-> AuthOutcome(None, "IllegalMessageTypeError", None, ks, idx, FALSE, FALSE,
                              InMemoryKey_empty)]
    ELSE IF payload.service \in auth_handlers
    THEN [invoked |-> Some(payload.service),
          out |-> SteamAuthHandler_handle_message(payload.body, ks, idx, t, fresh)]
    ELSE [invoked |-> None,
          out |-> AuthOutcome(Some(AuthResponseWithOnlyCode(reply_code(payload.service),
                                                           "AuthIllegalOperation")),
                              "", None, ks, idx, FALSE, FALSE, InMemoryKey_empty)]

\* One turn of connection_loop on the Auth connection for a message frame.
AuthHandleFrame ==
    /\ conn = "open"
    /\ msgs < MaxAuthMsgs
    /\ \E frame \in AuthFrames :
        LET message == BdMessage_new(session.authentication, frame)
            handled == AuthServer_handle_message(message.payload, keys, key_index, now, rng + 1)
            dispatched == message.kind = "ok"
            out == IF dispatched THEN handled.out
                   ELSE AuthOutcome(None, message.error, None, keys, key_index, FALSE, FALSE,
                                    InMemoryKey_empty)
        IN  /\ keys' = out.keys
            /\ key_index' = out.key_index
            /\ rng' = IF out.rotated THEN rng + 1 ELSE rng
            /\ ret' = IF out.called THEN Some([t |-> now, key |-> out.key]) ELSE ret
            /\ issued' = IF out.called
                          THEN issued \cup {[key |-> out.key.aes_key, t |-> now]}
                          ELSE issued
            /\ proofs' = IF IsSome(out.response)
                             /\ IsSome(Unwrap(out.response).serialized_proof_data)
                          THEN {Unwrap(Unwrap(out.response).serialized_proof_data)}
                          ELSE proofs
            /\ conn' = IF message.kind = "panic" THEN "panicked"
                       ELSE IF out.error # "" THEN "closed"
                       ELSE "open"
            /\ last_in' = Some(frame)
            /\ last_out' = Some([dispatched |-> dispatched,
                                 service |-> IF dispatched THEN message.payload.service ELSE -1,
                                 invoked |-> IF dispatched THEN handled.invoked ELSE None,
                                 wire |-> IF IsSome(out.response)
                                          THEN Some(send(Unwrap(out.response),
                                                         session.authentication))
                                          ELSE None,
                                 error |-> out.error,
                                 result |-> message.kind,
                                 proof |-> out.proof,
                                 called |-> out.called])
    /\ msgs' = msgs + 1
    /\ UNCHANGED <<now, clock>>
    /\ UNCHANGED <<session, TRANSACTION_ID_COUNTER>>
    /\ UNCHANGED regVars
    /\ UNCHANGED <<orderVars, codecVars, groupVars, wireVars>>


\* Clock grids of SpecAuth: on the first every request draws a new key while
\* the older ones stay valid, on the second a key has expired two steps later.
AuthClockSteps == {250, 500}

InitAuth ==
    /\ now = StartTime
    /\ clock \in {[step |-> st, end |-> StartTime + AuthHorizon] : st \in AuthClockSteps}
    /\ InitKeyStore
    /\ proofs = {}
    /\ session = [id |-> 0, authentication |-> None]
    /\ conn = "open"
    /\ msgs = 0
    /\ TRANSACTION_ID_COUNTER = 0
    /\ last_in = None
    /\ last_out = None
    /\ inbox = <<>>
    /\ trace = <<>>
    /\ InitCodecIdle
    /\ InitGroupIdle
    /\ InitRegIdle

\* GetCurrentKey stands for the requests of other Auth connections, which
\* share the key store.
NextAuth == Tick \/ GetCurrentKey \/ AuthHandleFrame \/ PeerClose

SpecAuth == InitAuth /\ [][NextAuth]_vars

(***************************************************************************)
(* Claims about the Auth server, checked under SpecAuth.                   *)
(***************************************************************************)
\* C16: the Auth dispatcher fails with IllegalMessageTypeError, sending no
\* reply and closing the connection, when the first payload byte is not a
\* known AuthMessageType code; for a known code with no registered handler it
\* sends an unencrypted AuthResponseWithOnlyCode(reply_code(type),
\* AuthIllegalOperation) and keeps the session open; only SteamForMmpRequest
\* (0x1C) reaches a handler.
C16_AuthDispatchByMessageType ==
    [][(/\ Handled
        /\ Unwrap(last_out').dispatched
        /\ Unwrap(last_out').service # -1)
       => LET o == Unwrap(last_out')
              ty == o.service
          IN  /\ ty \notin 0 .. 41
                     => (/\ o.error = "IllegalMessageTypeError"
                         /\ o.invoked = None
                         /\ o.wire = None
                         /\ conn' = "closed")
              /\ (ty \in 0 .. 41 /\ ty # 28)
                     => (/\ o.invoked = None
                         /\ IsSome(o.wire)
                         /\ Unwrap(o.wire).encrypted = 0
                         /\ Unwrap(o.wire).data.message_type
                                = (IF ty % 2 = 0 THEN ty + 1 ELSE ty)
                         /\ Unwrap(o.wire).data.error_code = "AuthIllegalOperation"
                         /\ Unwrap(o.wire).data.ticket = None
                         /\ session' = session
                         /\ conn' = "open")
              /\ (o.invoked # None <=> ty = 28)]_vars

\* C16 witness: AccountForMmpRequest (0xA), which has no handler, was answered
\* with AccountForMmpReply (0xB) and AuthIllegalOperation; the connection is
\* open.
C16_Witness ==
    /\ IsSome(last_out)
    /\ Unwrap(last_out).service = 10
    /\ IsSome(Unwrap(last_out).wire)
    /\ Unwrap(Unwrap(last_out).wire).data.message_type = 11
    /\ Unwrap(Unwrap(last_out).wire).data.error_code = "AuthIllegalOperation"
    /\ conn = "open"

\* The checks of C17 on a request body; the username is the one the handler
\* read from the ticket.
RequestIsGood(body) ==
    /\ body.kind = "steam"
    /\ body.title_id \in {18409, 18301, 18395, 18396, 18397, 18480}
    /\ body.data_len <= 128
    /\ body.signature = <<57005, 47806>>
    /\ body.secret_size = 88
    /\ body.data_len >= 40
    /\ Len(read_str(body.name, body.terminated, body.data_len - 40)) < 64

C18_TicketExpiresAfterFiveMinutes ==
    [][(Handled /\ Unwrap(last_out').invoked = Some(28) /\ Unwrap(last_out').error = "")
       => LET o == Unwrap(last_out')
              ticket == Unwrap(Unwrap(o.wire).data.ticket)
          IN  /\ ticket.time_issued = now
              /\ ticket.time_expires = now + 300
              /\ Unwrap(o.proof).time_expires = now + 300]_vars

\* C19: for every proof p whose username is shorter than 64 bytes,
\* serialize(p) is exactly 128 bytes, and deserialize applied to those bytes
\* returns the title, time_expires, license_id, user_id, session_key and
\* username of p as long as the sealing key is among get_valid_keys(), also
\* when other valid keys are tried first.
C19_ProofRoundTrip ==
    (IsSome(last_out) /\ IsSome(Unwrap(last_out).proof))
    => LET p == Unwrap(Unwrap(last_out).proof)
           bytes == Unwrap(Unwrap(Unwrap(last_out).wire).data.serialized_proof_data)
       IN  /\ Len(p.username) < 64
           /\ SerializedLen(p) = 128
           /\ bytes.aes_key \in get_valid_keys(keys, now)
                  => deserialize(bytes, keys, now) = [ok |-> TRUE, error |-> "", proof |-> p]

\* C19 witness: a proof with a username of 63 bytes, some time after it was
\* sealed: its key is still valid, is not the first key tried and not the
\* last, and deserialize returns the fields.
C19_Witness ==
    /\ IsSome(last_out)
    /\ IsSome(Unwrap(last_out).proof)
    /\ Len(Unwrap(Unwrap(last_out).proof).username) = 63
    /\ LET bytes == Unwrap(Unwrap(Unwrap(last_out).wire).data.serialized_proof_data)
           m == FirstMatch(bytes, ValidKeySeq(keys, now))
       IN  /\ m > 1
           /\ m < Len(ValidKeySeq(keys, now))
           /\ Unwrap(ret).t < now
           /\ deserialize(bytes, keys, now).ok

(***************************************************************************)
(* BdResponse::send as a function of the response and the session:         *)
(* messaging/bd_response.rs, crypto/mod.rs.  SpecSend applies it to        *)
(* payloads of every length up to MaxDataLen, built either way, on         *)
(* sessions with and without a session key.                                *)
(***************************************************************************)
\* const RESPONSE_SIGNATURE: u32 = 0xDEADBEEF, as two 16-bit words.
RESPONSE_SIGNATURE == <<57005, 48879>>

\* des::TdesEde3::block_size()
BlockSize == 8

\* Mutant: the buffer is not padded.
NoPadding(n, b) == n

\* usize::next_multiple_of
next_multiple_of(n, b) == IF n % b = 0 THEN n ELSE n + (b - (n % b))

\* encrypt_buffer_in_place on a buffer of len bytes: the buffer is resized
\* with zeros to the next multiple of the block size and encrypted whole.
encrypt_buffer_in_place(len) ==
    [len |-> next_multiple_of(len, BlockSize),
     zeros |-> next_multiple_of(len, BlockSize) - len]

\* BdResponse::send for a response with data_len bytes of data.  The frame:
\* the u32 length field, the flag byte, the bytes of seed written, the bytes
\* of body written, and for an encrypted body the key, the signature put
\* before the data and the zeros put after it.
BdResponse_send(should_encrypt, data_len, authentication) ==
    IF should_encrypt /\ IsSome(authentication)
    THEN LET data == encrypt_buffer_in_place(4 + data_len)
         IN  [length |-> data.len + 5, flag |-> 1, seed |-> 4, body |-> data.len,
              key |-> Unwrap(authentication).session_key,
              signature |-> Some(RESPONSE_SIGNATURE), zeros |-> data.zeros]
    ELSE [length |-> data_len + 1, flag |-> 0, seed |-> 0, body |-> data_len,
          key |-> "", signature |-> None, zeros |-> 0]

\* A response is sent on the session.
SendResponse ==
    /\ conn = "open"
    /\ \E should_encrypt \in BOOLEAN, data_len \in 0 .. MaxDataLen :
           last_out' = Some([should_encrypt |-> should_encrypt, data_len |-> data_len,
                             frame |-> BdResponse_send(should_encrypt, data_len,
                                                       session.authentication)])
    /\ UNCHANGED <<proofs, session, conn, msgs, TRANSACTION_ID_COUNTER, last_in>>
    /\ UNCHANGED keyVars
    /\ UNCHANGED regVars
    /\ UNCHANGED <<orderVars, codecVars, groupVars, wireVars>>

\* The session has no session key, or the one a proof for kA or kB gave it.
InitSend ==
    /\ now = StartTime
    /\ clock = [step |-> 0, end |-> StartTime]
    /\ InitKeyStore
    /\ proofs = {}
    /\ session \in {[id |-> 0, authentication |-> None]}
                   \cup {[id |-> 0,
                          authentication |->
                              SetAuthentication(None, SteamProof(18409, 77, k, Bob, StartTime))] :
                         k \in SessionKeys}
    /\ conn = "open"
    /\ msgs = 0
    /\ TRANSACTION_ID_COUNTER = 0
    /\ last_in = None
    /\ last_out = None
    /\ inbox = <<>>
    /\ trace = <<>>
    /\ InitCodecIdle
    /\ InitGroupIdle
    /\ InitRegIdle

NextSend == SendResponse

SpecSend == InitSend /\ [][NextSend]_vars

\* C20: BdResponse::send writes an encrypted frame (flag byte 1, 4-byte seed,
\* ciphertext of the payload prefixed with 0xDEADBEEF and zero-padded to a
\* multiple of 8 bytes) exactly when the response was built
\* encrypt-if-available and the session has a session key, and an
\* unencrypted frame (flag byte 0, payload) otherwise; in both cases the
\* length field equals the number of bytes written after it.
C20_FrameShapeAndLength ==
    IsSome(last_out)
    => LET r == Unwrap(last_out)
           f == r.frame
       IN  /\ f.flag \in {0, 1}
           /\ f.flag = 1 <=> (r.should_encrypt /\ session.authentication # None)
           /\ f.flag = 1
                  => (/\ f.seed = 4
                      /\ f.signature = Some(<<57005, 48879>>)
                      /\ f.key = Unwrap(session.authentication).session_key
                      /\ f.body = 4 + r.data_len + f.zeros
                      /\ f.body % 8 = 0
                      /\ f.zeros \in 0 .. 7)
           /\ f.flag = 0
                  => (/\ f.seed = 0
                      /\ f.signature = None
                      /\ f.body = r.data_len
                      /\ f.zeros = 0)
           /\ f.length = 1 + f.seed + f.body

\* C20 witness: a payload of 5 bytes went out encrypted on a session with a
\* key: 4 + 5 bytes padded with 7 zeros to 16, length field 21.
C20_Witness ==
    /\ IsSome(last_out)
    /\ Unwrap(last_out).data_len = 5
    /\ Unwrap(last_out).frame.flag = 1
    /\ Unwrap(last_out).frame.body = 16
    /\ Unwrap(last_out).frame.length = 21

\* The data of a response of data_len bytes as a payload: the message-type
\* byte and what follows it, with the zeros that stand after it in a buffer.
ResponsePayload(data_len, zeros) ==
    [service |-> 1, body |-> [kind |-> "reply", len |-> data_len - 1, zeros |-> zeros]]

\* The four bytes a sent frame carries where BdMessage::new reads the HMAC:
\* the signature, a constant that is the keyed digest of no data.
SignatureBytes(signature) == <<[signature |-> signature], "">>

\* The frame BdResponse::send wrote, as it lies in the buffer of a peer that
\* read its length field: flag, seed, and the ciphertext of signature, data
\* and padding.
Loopback(r) ==
    CipherFrame(r.frame.key, SignatureBytes(Unwrap(r.frame.signature)),
                ResponsePayload(r.data_len, r.frame.zeros), r.frame.length)

\* C21: a frame produced by the encrypted path of BdResponse::send under
\* session key K, given to BdMessage::new on a session holding K, passes the
\* HMAC check and yields the original payload.
C21_SendReceiveSymmetric ==
    (/\ IsSome(last_out)
     /\ Unwrap(last_out).frame.flag = 1
     /\ Unwrap(last_out).data_len >= 1)
    => LET r == Unwrap(last_out)
           message == BdMessage_new(session.authentication, Loopback(r))
       IN  /\ message.kind = "ok"
           /\ message.payload = ResponsePayload(r.data_len, 0)

(***************************************************************************)
(* Codec: messaging/bd_writer.rs, messaging/bd_reader.rs,                  *)
(* messaging/bd_data_type.rs.  Bytes are the numbers 0 .. 255; a value of  *)
(* an integer or float type is given by its little-endian bytes            *)
(* (to_le_bytes), a bool by TRUE or FALSE.  The result of an operation is  *)
(* a record: ok, the error when not ok, the writer or reader as the        *)
(* operation left it, and the value or destination buffer.                 *)
(***************************************************************************)
\* u8 << n: bits moved out of the byte are lost.
shl8(b, n) == (b * (2 ^ n)) % 256

\* u8 >> n
shr8(b, n) == b \div (2 ^ n)

\* u8 | u8
or8(a, b) ==
    LET bit(x, i) == (x \div (2 ^ i)) % 2
        o(i) == IF bit(a, i) = 1 \/ bit(b, i) = 1 THEN 2 ^ i ELSE 0
    IN  o(0) + o(1) + o(2) + o(3) + o(4) + o(5) + o(6) + o(7)

\* Mutant: the bits above the count are kept.
NoMask(b, n) == b

\* b & (0xFF >> (8 - n)), for n in 1 .. 8
low_bits(b, n) == b % (2 ^ n)

\* enum StreamMode
StreamMode == {"ByteMode", "BitMode"}

\* enum BdDataType: the types the codec reads and writes, with their tags.
BdDataType ==
    [NoType |-> 0, BoolType |-> 1, SignedChar8Type |-> 2, UnsignedChar8Type |-> 3,
     SignedInteger16Type |-> 5, UnsignedInteger16Type |-> 6, SignedInteger32Type |-> 7,
     UnsignedInteger32Type |-> 8, SignedInteger64Type |-> 9, UnsignedInteger64Type |-> 10,
     Float32Type |-> 13, Float64Type |-> 14, SignedChar8StringType |-> 16, BlobType |-> 19]

\* The values BdDataType::from_u8 knows: 0x0 .. 0x15 and MaxType 0x20.
KnownDataTypes == (0 .. 21) \cup {32}

\* const ARRAY_TYPE_OFFSET: u8 = 100
ARRAY_TYPE_OFFSET == 100

\* struct BufferDataType
BufferDataType(primitive_type, is_array) ==
    [primitive_type |-> primitive_type, is_array |-> is_array]

\* BufferDataType::to_value
to_value(t) ==
    IF t.is_array THEN t.primitive_type + ARRAY_TYPE_OFFSET ELSE t.primitive_type

\* Mutant: every value is taken for a data type.
from_value_unchecked(value) ==
    [ok |-> TRUE, error |-> "",
     value |-> BufferDataType(IF value >= ARRAY_TYPE_OFFSET THEN value - ARRAY_TYPE_OFFSET
                              ELSE value,
                              value >= ARRAY_TYPE_OFFSET)]

\* BufferDataType::from_value: the type of a tag byte, or IllegalDataTypeError.
from_value(value) ==
    LET is_array == value >= ARRAY_TYPE_OFFSET
        non_array_value == IF is_array THEN value - ARRAY_TYPE_OFFSET ELSE value
    IN  IF non_array_value \in KnownDataTypes
        THEN [ok |-> TRUE, error |-> "", value |-> BufferDataType(non_array_value, is_array)]
        ELSE [ok |-> FALSE, error |-> "IllegalDataTypeError",
              value |-> BufferDataType(0, FALSE)]

\* Width in bits of the primitive types as write_* and read_* move them: one
\* bit for a bool in BitMode, T::BITS otherwise.
Width(ty) ==
    IF ty = BdDataType.BoolType THEN 1
    ELSE IF ty \in {BdDataType.SignedChar8Type, BdDataType.UnsignedChar8Type} THEN 8
    ELSE IF ty \in {BdDataType.SignedInteger16Type, BdDataType.UnsignedInteger16Type} THEN 16
    ELSE IF ty \in {BdDataType.SignedInteger32Type, BdDataType.UnsignedInteger32Type,
                    BdDataType.Float32Type} THEN 32
    ELSE 64

\* Bytes of a primitive in ByteMode and in the buffer handed to the bit codec.
Size(ty) == (Width(ty) + 7) \div 8

\* The outcome of a codec operation.
Done(state, value) == [ok |-> TRUE, error |-> "", state |-> state, value |-> value]

Failed(error, state, value) == [ok |-> FALSE, error |-> error, state |-> state, value |-> value]

\* BdWriter::new: byte mode, not type checked, nothing pending.
BdWriter_new ==
    [buf |-> <<>>, bit_offset |-> 8, last_byte |-> 0, mode |-> "ByteMode",
     type_checked |-> FALSE]

\* BdWriter::flush, also run by Drop: the pending partial byte is written.
BdWriter_flush(w) ==
    IF w.bit_offset >= 8 THEN w
    ELSE [w EXCEPT !.buf = Append(@, w.last_byte), !.bit_offset = 8]

\* The loop of BdWriter::write_bits over the bytes of the source.
RECURSIVE write_bits_loop(_, _, _, _)
write_bits_loop(w, buf, src_offset, bits_left) ==
    IF bits_left <= 0 THEN w
    ELSE LET in_bits == IF bits_left < 8 THEN bits_left ELSE 8
             in_byte == IF bits_left < 8 THEN low_bits(buf[src_offset], bits_left)
                        ELSE buf[src_offset]
             last == or8(w.last_byte, shl8(in_byte, w.bit_offset))
             w1 == IF w.bit_offset < 8
                   THEN IF w.bit_offset + in_bits > 8
                        THEN [w EXCEPT !.buf = Append(@, last),
                                       !.bit_offset = w.bit_offset + (in_bits - 8),
                                       !.last_byte = shr8(in_byte, 8 - w.bit_offset)]
                        ELSE IF w.bit_offset + in_bits = 8
                        THEN [w EXCEPT !.buf = Append(@, last), !.last_byte = 0,
                                       !.bit_offset = 8]
                        ELSE [w EXCEPT !.last_byte = last,
                                       !.bit_offset = w.bit_offset + in_bits]
                   ELSE IF in_bits = 8
                   THEN [w EXCEPT !.buf = Append(@, in_byte)]
                   ELSE [w EXCEPT !.last_byte = in_byte, !.bit_offset = in_bits]
         IN  write_bits_loop(w1, buf, src_offset + 1, bits_left - in_bits)

\* BdWriter::write_bits(buf, count)
BdWriter_write_bits(w, buf, count) ==
    IF w.mode # "BitMode" THEN Failed("Mode", w, <<>>)
    ELSE Done(write_bits_loop(w, buf, 1, count), <<>>)

\* self.cursor.write(bytes): the cursor of a writer stands at the end.
cursor_write(w, bytes) == [w EXCEPT !.buf = @ \o bytes]

\* BdWriter::write_bytes
BdWriter_write_bytes(w, buffer) ==
    IF w.mode = "BitMode" THEN BdWriter_write_bits(w, buffer, Len(buffer) * 8)
    ELSE Done(cursor_write(w, buffer), <<>>)

\* BdWriter::write_type_checked_bit
BdWriter_write_type_checked_bit(w) ==
    IF w.mode # "BitMode" THEN Failed("Mode", w, <<>>)
    ELSE BdWriter_write_bits(w, IF w.type_checked THEN <<1>> ELSE <<0>>, 1)

\* BdWriter::write_data_type: a byte in ByteMode, five bits in BitMode.
BdWriter_write_data_type(w, buffer_data_type) ==
    IF w.mode = "ByteMode" THEN Done(cursor_write(w, <<to_value(buffer_data_type)>>), <<>>)
    ELSE BdWriter_write_bits(w, <<to_value(buffer_data_type)>>, 5)

\* The bytes of a value: a bool is 1 or 0, the other types are given by their
\* little-endian bytes.
to_le_bytes(ty, value) ==
    IF ty = BdDataType.BoolType THEN (IF value THEN <<1>> ELSE <<0>>) ELSE value

\* BdWriter::write_bool, write_i8, ..., write_f64: the tag when type checked,
\* then the value at its byte width or, in BitMode, its width in bits.
BdWriter_write(w, ty, value) ==
    LET tagged == IF w.type_checked
                  THEN BdWriter_write_data_type(w, BufferDataType(ty, FALSE))
                  ELSE Done(w, <<>>)
    IN  IF ~tagged.ok THEN tagged
        ELSE IF w.mode = "ByteMode"
        THEN Done(cursor_write(tagged.state, to_le_bytes(ty, value)), <<>>)
        ELSE BdWriter_write_bits(tagged.state, to_le_bytes(ty, value), Width(ty))

\* BdWriter::write_str: the bytes of the string and a zero.
BdWriter_write_str(w, value) ==
    IF w.mode # "ByteMode" THEN Failed("Mode", w, <<>>)
    ELSE LET tagged == IF w.type_checked
                       THEN BdWriter_write_data_type(
                                w, BufferDataType(BdDataType.SignedChar8StringType, FALSE))
                       ELSE Done(w, <<>>)
         IN  Done(cursor_write(tagged.state, value \o <<0>>), <<>>)

\* BdWriter::write_array_num_elements: the u32 tag, a total size of 0 and the
\* element count, both untagged u32.
BdWriter_write_array_num_elements(w, num_elements) ==
    LET tagged == BdWriter_write_data_type(
                      w, BufferDataType(BdDataType.UnsignedInteger32Type, FALSE))
    IN  Done(cursor_write(tagged.state, <<0, 0, 0, 0, num_elements, 0, 0, 0>>), <<>>)

\* Concatenation of the elements of a sequence of byte sequences, each
\* followed by the bytes of tail.
RECURSIVE Flatten(_, _)
Flatten(elements, tail) ==
    IF elements = <<>> THEN <<>>
    ELSE Head(elements) \o tail \o Flatten(Tail(elements), tail)

\* Mutant: the tags of an array are written only when type checked.
write_array_tagged_if_checked(w, ty, value) ==
    IF w.mode # "ByteMode" THEN Failed("Mode", w, <<>>)
    ELSE IF w.type_checked
    THEN Done(cursor_write(w, <<ty + ARRAY_TYPE_OFFSET, 8, 0, 0, 0, 0, Len(value), 0, 0, 0>>
                              \o Flatten(value, <<>>)), <<>>)
    ELSE Done(cursor_write(w, <<0, 0, 0, 0, Len(value), 0, 0, 0>> \o Flatten(value, <<>>)),
              <<>>)

\* BdWriter::write_i8_array, ..., write_u64_array: always the array tag, then
\* the count and the elements untagged.
BdWriter_write_array(w, ty, value) ==
    IF w.mode # "ByteMode" THEN Failed("Mode", w, <<>>)
    ELSE LET tagged == BdWriter_write_data_type(w, BufferDataType(ty, TRUE))
             counted == BdWriter_write_array_num_elements(tagged.state, Len(value))
         IN  Done(cursor_write(counted.state, Flatten(value, <<>>)), <<>>)

\* BdWriter::write_str_array: every string is followed by a zero.
BdWriter_write_str_array(w, value) ==
    IF w.mode # "ByteMode" THEN Failed("Mode", w, <<>>)
    ELSE LET tagged == BdWriter_write_data_type(
                           w, BufferDataType(BdDataType.SignedChar8StringType, TRUE))
             counted == BdWriter_write_array_num_elements(tagged.state, Len(value))
         IN  Done(cursor_write(counted.state, Flatten(value, <<0>>)), <<>>)

\* BdWriter::write_blob: the blob tag when type checked, the length by
\* write_u32 (with its own tag when type checked), the bytes.
BdWriter_write_blob(w, value) ==
    IF w.mode # "ByteMode" THEN Failed("Mode", w, <<>>)
    ELSE LET tagged == IF w.type_checked
                       THEN BdWriter_write_data_type(
                                w, BufferDataType(BdDataType.BlobType, FALSE))
                       ELSE Done(w, <<>>)
             sized == BdWriter_write(tagged.state, BdDataType.UnsignedInteger32Type,
                                     <<Len(value), 0, 0, 0>>)
         IN  Done(cursor_write(sized.state, value), <<>>)

\* BdReader::new: byte mode, not type checked, nothing read.
BdReader_new(buf) ==
    [buf |-> buf, pos |-> 0, bit_offset |-> 8, last_byte |-> 0,
     has_data_type_cached |-> FALSE, cached_data_type |-> BufferDataType(0, FALSE),
     mode |-> "ByteMode", type_checked |-> FALSE]

\* A sequence of n zero bytes: the temp_buffer of the readers.
Zeros(n) == [i \in 1 .. n |-> 0]

\* self.cursor.read_u8(), read_u32(), ...: read_exact of n bytes.  At the end
\* of the buffer it is an io error and the cursor stands at the end.
cursor_read_exact(r, n) ==
    IF r.pos + n <= Len(r.buf)
    THEN Done([r EXCEPT !.pos = @ + n], SubSeq(r.buf, r.pos + 1, r.pos + n))
    ELSE Failed("UnexpectedEof", [r EXCEPT !.pos = Len(r.buf)], <<>>)

\* The ? of Rust: an error ends the caller, which returns it without a
\* value; otherwise the caller goes on with the result.
Try(res, Continue(_)) ==
    IF res.ok THEN Continue(res) ELSE Failed(res.error, res.state, <<>>)

\* std::cmp::min
min(a, b) == IF a < b THEN a ELSE b

\* read_bits: "Check if we need a second byte".
needs_second_byte(r, bits_left) == bits_left > 8 - r.bit_offset

\* read_bits: max_read_bits of a pass of the loop.
max_read_bits(r, bits_left) == IF needs_second_byte(r, bits_left) THEN 8 ELSE 8 - r.bit_offset

\* read_bits: out_byte of a pass of the loop, from last_byte and, when it is
\* needed, the next byte of the cursor; masked when fewer than 8 bits are left.
out_byte(r, bits_left) ==
    LET unmasked ==
            IF needs_second_byte(r, bits_left)
            THEN or8(IF r.bit_offset < 8 THEN shr8(r.last_byte, r.bit_offset) ELSE 0,
                     shl8(r.buf[r.pos + 1], 8 - r.bit_offset))
            ELSE shr8(r.last_byte, r.bit_offset)
    IN  IF bits_left >= 8 THEN unmasked
        ELSE low_bits(unmasked, min(bits_left, max_read_bits(r, bits_left)))

\* read_bits: the reader after a pass of the loop: the byte read becomes
\* last_byte, and bit_offset moves, modulo 8, when fewer than 8 bits are left.
after_pass(r, bits_left) ==
    LET moved == r.bit_offset + min(bits_left, max_read_bits(r, bits_left))
    IN  [r EXCEPT !.pos = IF needs_second_byte(r, bits_left) THEN @ + 1 ELSE @,
                  !.last_byte = IF needs_second_byte(r, bits_left) THEN r.buf[r.pos + 1]
                                ELSE @,
                  !.bit_offset = IF bits_left >= 8 THEN @
                                 ELSE IF moved > 8 THEN moved - 8 ELSE moved]

\* The loop of BdReader::read_bits over the bytes of the destination.  A
\* second byte that the cursor does not have is the io error of read_u8.
RECURSIVE read_bits_loop(_, _, _, _)
read_bits_loop(r, buf, dest_offset, bits_left) ==
    IF bits_left <= 0 THEN Done(r, buf)
    ELSE IF needs_second_byte(r, bits_left) /\ r.pos >= Len(r.buf)
    THEN Failed("UnexpectedEof", r, buf)
    ELSE read_bits_loop(after_pass(r, bits_left),
                        [buf EXCEPT ![dest_offset] = out_byte(r, bits_left)],
                        dest_offset + 1,
                        IF bits_left >= 8 THEN bits_left - max_read_bits(r, bits_left)
                        ELSE bits_left - min(bits_left, max_read_bits(r, bits_left)))

\* Mutant: the bits are read whatever the mode is.
read_bits_any_mode(r, buf, count) == read_bits_loop(r, buf, 1, count)

\* BdReader::read_bits(buf, count): the destination is returned as value.
BdReader_read_bits(r, buf, count) ==
    IF r.mode # "BitMode" THEN Failed("Mode", r, buf)
    ELSE read_bits_loop(r, buf, 1, count)

\* self.cursor.read(buffer): as many bytes as are left, at most the buffer;
\* value is the count and the buffer.
cursor_read(r, buffer) ==
    Done([r EXCEPT !.pos = @ + min(Len(r.buf) - r.pos, Len(buffer))],
         [n |-> min(Len(r.buf) - r.pos, Len(buffer)),
          buffer |-> [i \in 1 .. Len(buffer) |->
                         IF i <= Len(r.buf) - r.pos THEN r.buf[r.pos + i] ELSE buffer[i]]])

\* ensure!(self.cursor.read(buffer)? == len, UnexpectedEndOfMessage)
ensure_read(got, len) ==
    IF got.value.n = len THEN Done(got.state, got.value.buffer)
    ELSE Failed("UnexpectedEndOfMessage", got.state, got.value.buffer)

\* BdReader::read_bytes
BdReader_read_bytes(r, buffer) ==
    IF r.mode = "BitMode" THEN BdReader_read_bits(r, buffer, Len(buffer) * 8)
    ELSE ensure_read(cursor_read(r, buffer), Len(buffer))

\* BdReader::read_type_checked_bit: the flag of the reader is set from the bit.
BdReader_read_type_checked_bit(r) ==
    IF r.mode # "BitMode" THEN Failed("Mode", r, <<>>)
    ELSE Try(BdReader_read_bits(r, <<0>>, 1),
             LAMBDA got : Done([got.state EXCEPT !.type_checked = got.value[1] > 0], <<>>))

\* The Result of from_value as the result of the reader.
data_type_read(r, t) == IF t.ok THEN Done(r, t.value) ELSE Failed(t.error, r, <<>>)

\* BdReader::read_data_type: the cached type, or a byte in ByteMode and five
\* bits in BitMode through from_value.
BdReader_read_data_type(r) ==
    IF r.has_data_type_cached
    THEN Done([r EXCEPT !.has_data_type_cached = FALSE], r.cached_data_type)
    ELSE Try(IF r.mode # "BitMode" THEN cursor_read_exact(r, 1)
             ELSE BdReader_read_bits(r, <<0>>, 5),
             LAMBDA got : data_type_read(got.state, from_value(got.value[1])))

\* BdReader::next_data_type: NoType when not type checked; otherwise the
\* cached type, or the type read by read_data_type, which is then cached.
BdReader_next_data_type(r) ==
    IF ~r.type_checked THEN Done(r, BufferDataType(BdDataType.NoType, FALSE))
    ELSE IF r.has_data_type_cached THEN Done(r, r.cached_data_type)
    ELSE Try(BdReader_read_data_type(r),
             LAMBDA t : Done([t.state EXCEPT !.cached_data_type = t.value,
                                             !.has_data_type_cached = TRUE],
                             t.value))

\* BdReader::next_is_bool, next_is_i8, ..., next_is_f64: eq_non_array on the
\* next data type.
BdReader_next_is(r, ty) ==
    Try(BdReader_next_data_type(r),
        LAMBDA t : Done(t.state, t.value = BufferDataType(ty, FALSE)))

\* let actual_type = self.read_data_type()?; ensure!(actual_type.eq_non_array(..))
\* or ensure!(actual_type.eq_array(..)): the type check of the readers.
expect_data_type(r, expected) ==
    Try(BdReader_read_data_type(r),
        LAMBDA actual : IF actual.value = expected THEN Done(actual.state, <<>>)
                        ELSE Failed("UnexpectedDataType", actual.state, <<>>))

\* if self.type_checked { ... }: the type check of a value that is no array.
expect_if_type_checked(r, ty) ==
    IF r.type_checked THEN expect_data_type(r, BufferDataType(ty, FALSE)) ELSE Done(r, <<>>)

\* The value of bytes read: a bool is byte > 0, the other types keep their
\* little-endian bytes.
from_le_bytes(ty, bytes) ==
    IF ty = BdDataType.BoolType THEN bytes[1] > 0 ELSE bytes

\* The value of a primitive after its type check: Size bytes of the cursor
\* in ByteMode, Width bits in BitMode.
read_value(r, ty) ==
    Try(IF r.mode = "ByteMode" THEN cursor_read_exact(r, Size(ty))
        ELSE BdReader_read_bits(r, Zeros(Size(ty)), Width(ty)),
        LAMBDA got : Done(got.state, from_le_bytes(ty, got.value)))

\* BdReader::read_bool, read_i8, ..., read_f64
BdReader_read(r, ty) ==
    Try(expect_if_type_checked(r, ty), LAMBDA checked : read_value(checked.state, ty))

\* u32::from_le_bytes as a number
le_u32(bytes) == bytes[1] + 256 * bytes[2] + 65536 * bytes[3] + 16777216 * bytes[4]

\* String::from_utf8 on the bytes the model uses: ASCII is valid, a lone
\* byte of 0x80 or more is not.
valid_utf8(bytes) == \A i \in DOMAIN bytes : bytes[i] < 128

\* Index of the first zero byte after the cursor, or of the last byte.
zero_or_end(r) ==
    IF \E i \in (r.pos + 1) .. Len(r.buf) : r.buf[i] = 0
    THEN CHOOSE i \in (r.pos + 1) .. Len(r.buf) :
             /\ r.buf[i] = 0
             /\ \A j \in (r.pos + 1) .. (i - 1) : r.buf[j] # 0
    ELSE Len(r.buf)

\* buf.remove(buf.len() - 1) of a buffer that is not empty, String::from_utf8.
string_read(r, buf) ==
    IF valid_utf8(SubSeq(buf, 1, Len(buf) - 1)) THEN Done(r, SubSeq(buf, 1, Len(buf) - 1))
    ELSE Failed("FromUtf8Error", r, <<>>)

\* self.cursor.read_until(0, buf), the removal of the last byte read and
\* String::from_utf8.
read_until_zero(r) ==
    string_read([r EXCEPT !.pos = zero_or_end(r)], SubSeq(r.buf, r.pos + 1, zero_or_end(r)))

\* BdReader::read_str
BdReader_read_str(r) ==
    IF r.mode # "ByteMode" THEN Failed("Mode", r, <<>>)
    ELSE Try(expect_if_type_checked(r, BdDataType.SignedChar8StringType),
             LAMBDA checked : read_until_zero(checked.state))

\* The total size, which is ignored, and the count, as untagged u32.
read_size_and_count(r) ==
    Try(cursor_read_exact(r, 8),
        LAMBDA got : Done(got.state, le_u32(SubSeq(got.value, 5, 8))))

\* BdReader::read_array_num_elements: the u32 tag is always checked, the
\* total size is ignored, the count is untagged.
BdReader_read_array_num_elements(r) ==
    Try(expect_data_type(r, BufferDataType(BdDataType.UnsignedInteger32Type, FALSE)),
        LAMBDA checked : read_size_and_count(checked.state))

\* An element of an array: size bytes, or a string when size is 0.
read_element(r, size) == IF size = 0 THEN read_until_zero(r) ELSE cursor_read_exact(r, size)

\* The reader and the Vec after the pass of the loop that read el.
pushed(acc, el) ==
    IF el.ok THEN Done(el.state, Append(acc.value, el.value))
    ELSE Failed(el.error, el.state, <<>>)

\* for _ in 0..num_elements { result.push(...) }: elements of size bytes, or
\* strings when size is 0; acc is the reader and the Vec so far.
RECURSIVE read_elements(_, _, _)
read_elements(acc, size, n) ==
    IF n = 0 \/ ~acc.ok THEN acc
    ELSE read_elements(pushed(acc, read_element(acc.state, size)), size, n - 1)

\* let num_elements = self.read_array_num_elements()?; and the loop.
read_counted(r, size) ==
    Try(BdReader_read_array_num_elements(r),
        LAMBDA num_elements :
            read_elements(Done(num_elements.state, <<>>), size, num_elements.value))

\* The array readers after their Mode check: the array tag, the count, the
\* elements.
read_array_of(r, ty, size) ==
    Try(expect_data_type(r, BufferDataType(ty, TRUE)),
        LAMBDA checked : read_counted(checked.state, size))

\* BdReader::read_i8_array, ..., read_f64_array
BdReader_read_array(r, ty) ==
    IF r.mode # "ByteMode" THEN Failed("Mode", r, <<>>)
    ELSE read_array_of(r, ty, Size(ty))

\* BdReader::read_str_array
BdReader_read_str_array(r) ==
    IF r.mode # "ByteMode" THEN Failed("Mode", r, <<>>)
    ELSE read_array_of(r, BdDataType.SignedChar8StringType, 0)

\* let mut blob = vec![0; blob_size]; ensure!(self.cursor.read(..)? == blob_size).
\* Of a blob longer than the rest of the buffer only the rest is read before
\* the length is compared.
read_blob_bytes(r, blob_size) ==
    Try(ensure_read(cursor_read(r, Zeros(min(blob_size, Len(r.buf) - r.pos))), blob_size),
        LAMBDA blob : blob)

\* let blob_size = self.read_u32()? as usize; and the bytes.
read_sized_blob(r) ==
    Try(BdReader_read(r, BdDataType.UnsignedInteger32Type),
        LAMBDA blob_size : read_blob_bytes(blob_size.state, le_u32(blob_size.value)))

\* BdReader::read_blob: the blob tag when type checked, the length by
\* read_u32, the bytes.
BdReader_read_blob(r) ==
    IF r.mode # "ByteMode" THEN Failed("Mode", r, <<>>)
    ELSE Try(expect_if_type_checked(r, BdDataType.BlobType),
             LAMBDA checked : read_sized_blob(checked.state))

(***************************************************************************)
(* SpecCodec: the owner of a BdWriter sets its mode and flag, writes       *)
(* values and drops it; a BdReader over the bytes reads the same types in  *)
(* the same order.  A second owner reads from buffers that no writer of    *)
(* this codec produced.                                                    *)
(***************************************************************************)
\* One use of the codec: a write_* or read_* call and its argument.
Op(kind, ty, value, count) == [kind |-> kind, ty |-> ty, value |-> value, count |-> count]

\* A value of every primitive type: bools, and the little-endian bytes of
\* integers and floats.
PrimitiveOps ==
    <<Op("prim", BdDataType.BoolType, TRUE, 0),
      Op("prim", BdDataType.BoolType, FALSE, 0),
      Op("prim", BdDataType.SignedChar8Type, <<157>>, 0),
      Op("prim", BdDataType.UnsignedChar8Type, <<11>>, 0),
      Op("prim", BdDataType.SignedInteger16Type, <<249, 82>>, 0),
      Op("prim", BdDataType.UnsignedInteger16Type, <<0, 128>>, 0),
      Op("prim", BdDataType.SignedInteger32Type, <<255, 255, 255, 255>>, 0),
      Op("prim", BdDataType.UnsignedInteger32Type, <<50, 0, 0, 0>>, 0),
      Op("prim", BdDataType.SignedInteger64Type, <<1, 2, 3, 4, 5, 6, 7, 8>>, 0),
      Op("prim", BdDataType.UnsignedInteger64Type, <<0, 0, 0, 0, 0, 0, 0, 128>>, 0),
      Op("prim", BdDataType.Float32Type, <<0, 0, 192, 127>>, 0),
      Op("prim", BdDataType.Float64Type, <<0, 0, 0, 0, 0, 0, 240, 63>>, 0)>>

\* Strings as their UTF-8 bytes: "", "ab" and "a\0b".
StringOps ==
    <<Op("str", 0, <<>>, 0), Op("str", 0, <<97, 98>>, 0), Op("str", 0, <<97, 0, 98>>, 0)>>

BlobOps == <<Op("blob", 0, <<>>, 0), Op("blob", 0, <<1, 0, 2>>, 0)>>

ArrayOps ==
    <<Op("array", BdDataType.UnsignedChar8Type, <<<<5>>>>, 0),
      Op("array", BdDataType.UnsignedInteger16Type, <<<<1, 0>>, <<7, 2>>>>, 0),
      Op("array", BdDataType.SignedInteger32Type, <<>>, 0),
      Op("str_array", 0, <<<<97, 98>>, <<>>>>, 0)>>

\* write_bits and read_bits calls: the buffer and the number of bits.
BitOps ==
    <<Op("bits", 0, <<11>>, 4), Op("bits", 0, <<157>>, 8), Op("bits", 0, <<13>>, 4),
      Op("bits", 0, <<255>>, 3), Op("bits", 0, <<1>>, 1), Op("bits", 0, <<249, 82>>, 14),
      Op("bits", 0, <<63>>, 6)>>

TypeCheckedBitOp == Op("tcbit", 0, <<>>, 0)

\* What the owner of a writer in the phase may call, as a list.
WriteOps(ph) ==
    IF ph = "bits" THEN BitOps
    ELSE PrimitiveOps \o StringOps \o BlobOps \o ArrayOps
         \o <<Op("bits", 0, <<255>>, 3), TypeCheckedBitOp>>

\* The write_* call of an Op.
ApplyWrite(w, op) ==
    CASE op.kind = "prim" -> BdWriter_write(w, op.ty, op.value)
      [] op.kind = "str" -> BdWriter_write_str(w, op.value)
      [] op.kind = "blob" -> BdWriter_write_blob(w, op.value)
      [] op.kind = "array" -> BdWriter_write_array(w, op.ty, op.value)
      [] op.kind = "str_array" -> BdWriter_write_str_array(w, op.value)
      [] op.kind = "bits" -> BdWriter_write_bits(w, op.value, op.count)
      [] op.kind = "tcbit" -> BdWriter_write_type_checked_bit(w)

\* The read_* call of an Op; read_bits gets a buffer of the size of the
\* value, filled with the bytes in fill.
ApplyRead(r, op, fill) ==
    CASE op.kind = "prim" -> BdReader_read(r, op.ty)
      [] op.kind = "str" -> BdReader_read_str(r)
      [] op.kind = "blob" -> BdReader_read_blob(r)
      [] op.kind = "array" -> BdReader_read_array(r, op.ty)
      [] op.kind = "str_array" -> BdReader_read_str_array(r)
      [] op.kind = "bits" -> BdReader_read_bits(r, [i \in DOMAIN op.value |-> fill],
                                                op.count)
      [] op.kind = "tcbit" -> BdReader_read_type_checked_bit(r)
      [] op.kind = "next_is" -> BdReader_next_is(r, op.ty)

\* What a read left for the caller.
ReadOutcome(op, res) == [op |-> op, ok |-> res.ok, error |-> res.error, value |-> res.value]

\* A write_* call.  A failed call ends the writing.
CodecWrite ==
    /\ phase \in {"typed", "bits"}
    /\ Len(written) < (IF phase = "bits" THEN MaxBitWrites ELSE MaxTypedWrites)
    /\ \E i \in DOMAIN WriteOps(phase) :
           LET op == WriteOps(phase)[i]
               res == ApplyWrite(writer, op)
           IN  /\ writer' = res.state
               /\ written' = Append(written, op)
               /\ phase' = IF res.ok THEN phase ELSE "failed"
    /\ UNCHANGED <<reader, read_back>>
    /\ UNCHANGED <<keyVars, lobbyVars, regVars, orderVars, groupVars, wireVars>>

\* The writer is dropped, which flushes it, and a reader is made over the
\* bytes, in the mode of the writer and with a flag of its own.
CodecDrop ==
    /\ phase \in {"typed", "bits"}
    /\ written # <<>>
    /\ writer' = BdWriter_flush(writer)
    /\ \E type_checked \in BOOLEAN :
           reader' = [BdReader_new(writer'.buf) EXCEPT !.mode = writer.mode,
                                                       !.type_checked = type_checked]
    /\ phase' = "read"
    /\ UNCHANGED <<written, read_back>>
    /\ UNCHANGED <<keyVars, lobbyVars, regVars, orderVars, groupVars, wireVars>>

\* The next value is read with the read_* call of its type.
CodecRead ==
    /\ phase = "read"
    /\ Len(read_back) < Len(written)
    /\ LET op == written[Len(read_back) + 1]
           res == ApplyRead(reader, op, 0)
       IN  /\ reader' = res.state
           /\ read_back' = Append(read_back, ReadOutcome(op, res))
    /\ UNCHANGED <<writer, written, phase>>
    /\ UNCHANGED <<keyVars, lobbyVars, regVars, orderVars, groupVars, wireVars>>

\* What is read from a buffer of unknown origin.
ReadOps ==
    <<Op("prim", BdDataType.BoolType, <<>>, 0),
      Op("prim", BdDataType.UnsignedChar8Type, <<>>, 0),
      Op("prim", BdDataType.UnsignedInteger16Type, <<>>, 0),
      Op("prim", BdDataType.UnsignedInteger32Type, <<>>, 0),
      Op("str", 0, <<>>, 0), Op("blob", 0, <<>>, 0), Op("str_array", 0, <<>>, 0),
      Op("array", BdDataType.UnsignedChar8Type, <<>>, 0),
      Op("array", BdDataType.UnsignedInteger16Type, <<>>, 0),
      Op("bits", 0, <<0>>, 3), Op("bits", 0, <<0, 0>>, 11), TypeCheckedBitOp>>

\* A read_* call on a buffer of unknown origin.
RawRead ==
    /\ phase = "raw"
    /\ Len(read_back) < MaxRawReads
    /\ \E i \in DOMAIN ReadOps :
           LET op == ReadOps[i]
               res == ApplyRead(reader, op, 170)
           IN  /\ reader' = res.state
               /\ read_back' = Append(read_back, ReadOutcome(op, res))
    /\ UNCHANGED <<writer, written, phase>>
    /\ UNCHANGED <<keyVars, lobbyVars, regVars, orderVars, groupVars, wireVars>>

\* Buffers of unknown origin: tags of the right type, of another type and of
\* no type, arrays with a good and a bad size tag, text with and without its
\* terminator, and buffers that end early.
RawInputs ==
    {<<>>, <<98, 240>>, <<97, 240>>, <<3, 1>>, <<1, 5, 1, 0>>, <<22, 1>>, <<255, 3>>,
     <<8, 2, 0, 0, 0, 9>>, <<19, 8, 1, 0, 0, 0, 7>>, <<16, 97, 0, 6, 1, 0>>,
     <<103, 8, 0, 0, 0, 0, 2, 0, 0, 0, 7, 9>>, <<103, 7, 0, 0, 0, 0, 1, 0, 0, 0, 7>>,
     <<3, 8, 0, 0, 0, 0, 1, 0, 0, 0, 7>>, <<250, 8, 0, 0, 0, 0, 1, 0, 0, 0, 7>>,
     <<106, 8, 4, 0, 0, 0, 1, 0, 0, 0, 7, 2>>, <<106, 8, 0, 0, 0, 0, 2, 0, 0, 0, 7, 2>>,
     <<116, 8, 0, 0, 0, 0, 2, 0, 0, 0, 97, 0, 0>>, <<116, 40, 0, 0, 0, 0, 1, 0, 0, 0, 97, 0>>}

InitCodec ==
    /\ now = StartTime
    /\ clock = [step |-> 0, end |-> StartTime]
    /\ InitKeyStore
    /\ proofs = {}
    /\ session = [id |-> 0, authentication |-> None]
    /\ conn = "closed"
    /\ msgs = 0
    /\ TRANSACTION_ID_COUNTER = 0
    /\ last_in = None
    /\ last_out = None
    /\ inbox = <<>>
    /\ trace = <<>>
    /\ InitRegIdle
    /\ InitGroupIdle
    /\ written = <<>>
    /\ read_back = <<>>
    /\ phase \in {"typed", "bits", "raw"}
    /\ \E mode \in StreamMode, type_checked \in BOOLEAN :
           /\ writer = IF phase = "raw" THEN BdWriter_new
                       ELSE [BdWriter_new EXCEPT
                                 !.mode = IF phase = "bits" THEN "BitMode" ELSE mode,
                                 !.type_checked = type_checked]
           /\ reader \in IF phase = "raw"
                         THEN {[BdReader_new(buf) EXCEPT !.mode = mode,
                                                         !.type_checked = type_checked] :
                               buf \in RawInputs}
                         ELSE {BdReader_new(<<>>)}

NextCodec == CodecWrite \/ CodecDrop \/ CodecRead \/ RawRead

SpecCodec == InitCodec /\ [][NextCodec]_vars

\* The calls that write and read a typed value.
TypedKinds == {"prim", "str", "blob", "array", "str_array"}

\* A reader set to the mode and the flag of the writer reads what only
\* write calls of typed values produced.
SameSettings ==
    /\ phase = "read"
    /\ reader.mode = writer.mode
    /\ reader.type_checked = writer.type_checked
    /\ \A i \in DOMAIN written : written[i].kind \in TypedKinds

\* C26: for every primitive type, value, mode and type_checked flag, a value
\* written with a BdWriter is returned by the read of the same type on a
\* BdReader with the same mode and flag; the same holds for strings, blobs
\* and arrays in ByteMode and for every sequence of such writes read back in
\* order.
C26_RoundTrip ==
    SameSettings
    => \A i \in DOMAIN read_back :
           read_back[i].ok /\ read_back[i].value = written[i].value

\* The low count bits of the buffer of a write_bits call, lowest bit of the
\* first byte first.
BitsOf(op) == [k \in 1 .. op.count |-> (op.value[((k - 1) \div 8) + 1] \div (2 ^ ((k - 1) % 8))) % 2]

\* The bits of a sequence of write_bits calls, in the order of the calls.
RECURSIVE StreamBits(_)
StreamBits(ops) == IF ops = <<>> THEN <<>> ELSE BitsOf(Head(ops)) \o StreamBits(Tail(ops))

\* Bits packed eight to a byte, the first bit lowest; the last byte is filled
\* with zero bits.
Pack(bits) ==
    LET bit(k) == IF k <= Len(bits) THEN bits[k] ELSE 0
    IN  [j \in 1 .. ((Len(bits) + 7) \div 8) |->
            bit(8 * j - 7) + 2 * bit(8 * j - 6) + 4 * bit(8 * j - 5) + 8 * bit(8 * j - 4)
            + 16 * bit(8 * j - 3) + 32 * bit(8 * j - 2) + 64 * bit(8 * j - 1)
            + 128 * bit(8 * j)]

\* Only write_bits calls were made and the writer was dropped.
OnlyBitsWritten ==
    /\ phase = "read"
    /\ \A i \in DOMAIN written : written[i].kind = "bits"

\* C27: the values of a sequence of write_bits calls in BitMode, flushed by
\* the drop of the writer, are packed lowest bit first across byte
\* boundaries (0x0B/4, 0x9D/8, 0x0D/4 gives DB D9) into ceil(total bits / 8)
\* bytes, and read_bits with the same bit counts returns every value masked
\* to its low count bits.
C27_BitPacking ==
    OnlyBitsWritten
    => /\ reader.buf = Pack(StreamBits(written))
       /\ Len(reader.buf) = (Len(StreamBits(written)) + 7) \div 8
       /\ written = <<Op("bits", 0, <<11>>, 4), Op("bits", 0, <<157>>, 8),
                      Op("bits", 0, <<13>>, 4)>>
          => reader.buf = <<219, 217>>
       /\ \A i \in DOMAIN read_back :
              /\ read_back[i].ok
              /\ read_back[i].value = Pack(BitsOf(written[i]))

\* The example of the specification was written, flushed and read back.
C27_Witness ==
    /\ OnlyBitsWritten
    /\ Len(read_back) = MaxBitWrites
    /\ SubSeq(written, 1, 3) = <<Op("bits", 0, <<11>>, 4), Op("bits", 0, <<157>>, 8),
                                 Op("bits", 0, <<13>>, 4)>>
    /\ SubSeq(reader.buf, 1, 2) = <<219, 217>>
    /\ read_back[2].value = <<157>>

\* Bits of the buffer a reader has consumed.
ConsumedBits(r) ==
    IF r.mode = "BitMode" /\ r.bit_offset < 8 THEN (r.pos - 1) * 8 + r.bit_offset
    ELSE r.pos * 8

\* The n bits of the buffer that follow what the reader has consumed, packed
\* into bytes; n bits must be left.
NextBits(r, n) ==
    LET c == ConsumedBits(r)
    IN  Pack([k \in 1 .. n |->
                 (r.buf[((c + k - 1) \div 8) + 1] \div (2 ^ ((c + k - 1) % 8))) % 2])

BitsLeft(r) == 8 * Len(r.buf) - ConsumedBits(r)

\* Width of a type tag and of a primitive value in the mode of the reader.
TagBits(r) == IF r.mode = "BitMode" THEN 5 ELSE 8

ValueBits(r, ty) == IF r.mode = "BitMode" THEN Width(ty) ELSE 8 * Size(ty)

\* The tag a typed read meets next.
NextTag(r) == NextBits(r, TagBits(r))[1]

\* The tag is the value of a data type or of an array of one.
IsDataTypeValue(tag) ==
    \/ tag \in KnownDataTypes
    \/ tag >= ARRAY_TYPE_OFFSET /\ (tag - ARRAY_TYPE_OFFSET) \in KnownDataTypes

\* The read that a step made, when it made one.
ReadMade == read_back'[Len(read_back')]

\* A step reads a primitive with type_checked on and the tag that comes next
\* is not the tag of the type asked for.
MismatchedTypedRead ==
    /\ read_back' # read_back
    /\ ReadMade.op.kind = "prim"
    /\ reader.type_checked
    /\ BitsLeft(reader) >= TagBits(reader)
    /\ NextTag(reader) # ReadMade.op.ty

\* A step reads a primitive with type_checked off from a buffer that holds
\* the value: the bits of the value are consumed, and nothing before them.
UntaggedRead ==
    (/\ read_back' # read_back
     /\ ReadMade.op.kind = "prim"
     /\ ~reader.type_checked
     /\ BitsLeft(reader) >= ValueBits(reader, ReadMade.op.ty))
    => /\ ReadMade.ok
       /\ ConsumedBits(reader') = ConsumedBits(reader) + ValueBits(reader, ReadMade.op.ty)
       /\ ReadMade.value
              = from_le_bytes(ReadMade.op.ty,
                              NextBits(reader, ValueBits(reader, ReadMade.op.ty)))

\* C28 as stated: with type_checked on, a typed read whose next tag (5 bits
\* in BitMode, 8 bits in ByteMode) is not the tag of the requested type fails
\* with UnexpectedDataType and returns no value; with type_checked off a
\* primitive read consumes no tag.
C28_MismatchIsUnexpectedDataType ==
    [][/\ MismatchedTypedRead
          => /\ ~ReadMade.ok
             /\ ReadMade.error = "UnexpectedDataType"
             /\ ReadMade.value = <<>>
       /\ UntaggedRead]_vars

\* C28 amended: with type_checked on, a typed read whose next tag is not the
\* tag of the requested type returns no value; it fails with
\* UnexpectedDataType when the tag is the value of another data type and with
\* IllegalDataTypeError when it is the value of no data type.  With
\* type_checked off a primitive read consumes no tag.
C28_MismatchIsRejected ==
    [][/\ MismatchedTypedRead
          => /\ ~ReadMade.ok
             /\ ReadMade.error = IF IsDataTypeValue(NextTag(reader))
                                 THEN "UnexpectedDataType"
                                 ELSE "IllegalDataTypeError"
             /\ ReadMade.value = <<>>
       /\ UntaggedRead]_vars

\* A bool was asked of a type-checked reader whose buffer starts with the
\* tag of another type, and the read failed with UnexpectedDataType.
C28_Witness ==
    /\ phase = "raw"
    /\ Len(read_back) = 1
    /\ reader.type_checked
    /\ read_back[1].op = Op("prim", BdDataType.BoolType, <<>>, 0)
    /\ Len(reader.buf) > 0
    /\ reader.buf[1] = BdDataType.UnsignedChar8Type
    /\ read_back[1].error = "UnexpectedDataType"

\* The call is one of the other mode: a string, blob or array in BitMode, or
\* read_bits, write_bits or the type-check bit in ByteMode.
WrongMode(op, mode) ==
    \/ op.kind \in {"str", "blob", "array", "str_array"} /\ mode = "BitMode"
    \/ op.kind \in {"bits", "tcbit"} /\ mode = "ByteMode"

\* C29: reading or writing a string, blob or array in BitMode fails with a
\* Mode error, and so do read_bits, write_bits and the type-check bit in
\* ByteMode; the cursor does not advance and the destination buffer (the
\* buffer given to read_bits, the Vec of the writer) is not modified.
C29_ModeErrorsChangeNothing ==
    [][/\ (read_back' # read_back /\ WrongMode(ReadMade.op, reader.mode))
          => /\ ~ReadMade.ok
             /\ ReadMade.error = "Mode"
             /\ reader' = reader
             /\ ReadMade.op.kind = "bits"
                => ReadMade.value = [i \in DOMAIN ReadMade.op.value |-> 170]
       /\ (written' # written /\ WrongMode(written'[Len(written')], writer.mode))
          => /\ phase' = "failed"
             /\ ApplyWrite(writer, written'[Len(written')]).error = "Mode"
             /\ writer' = writer]_vars

\* After a read that moved the cursor, read_bits was called in ByteMode: it
\* failed with Mode and the buffer given to it holds what it held.
C29_Witness ==
    /\ phase = "raw"
    /\ Len(read_back) = 2
    /\ reader.mode = "ByteMode"
    /\ read_back[1].ok
    /\ reader.pos > 0
    /\ read_back[2].op.kind = "bits"
    /\ read_back[2].error = "Mode"
    /\ read_back[2].value = <<170>>

\* The array calls.
ArrayKinds == {"array", "str_array"}

\* The tag of the array a call writes or asks for: the tag of the primitive
\* plus 100.
ArrayTag(op) ==
    (IF op.kind = "str_array" THEN BdDataType.SignedChar8StringType ELSE op.ty) + 100

\* The bytes of an array: its tag, the tag of u32 and a total size of 0, the
\* count without a tag, the elements.
ArrayBytes(op) ==
    <<ArrayTag(op), BdDataType.UnsignedInteger32Type, 0, 0, 0, 0, Len(op.value), 0, 0, 0>>
    \o Flatten(op.value, IF op.kind = "str_array" THEN <<0>> ELSE <<>>)

RECURSIVE ArraysBytes(_)
ArraysBytes(ops) == IF ops = <<>> THEN <<>> ELSE ArrayBytes(Head(ops)) \o ArraysBytes(Tail(ops))

\* Arrays written with either flag have the layout of ArrayBytes and are
\* read back by a reader with either flag.
ArraysWhateverTheFlag ==
    (phase = "read" /\ \A i \in DOMAIN written : written[i].kind \in ArrayKinds)
    => /\ reader.buf = ArraysBytes(written)
       /\ \A i \in DOMAIN read_back :
              read_back[i].ok /\ read_back[i].value = written[i].value

\* A step reads an array in ByteMode and the byte that comes first is not
\* the tag of the array asked for.
MismatchedArrayRead ==
    /\ read_back' # read_back
    /\ ReadMade.op.kind \in ArrayKinds
    /\ reader.mode = "ByteMode"
    /\ reader.pos < Len(reader.buf)
    /\ reader.buf[reader.pos + 1] # ArrayTag(ReadMade.op)

\* C30 as stated: array reads and writes carry and verify the array tag
\* (primitive tag + 100), a u32-tagged total size and an untagged u32 count
\* whatever the type_checked flag is: an array read whose first byte is not
\* the expected array tag fails with UnexpectedDataType also when
\* type_checked is off, and an array written with the flag off is readable
\* with the flag on and the reverse.
C30_ArraysAlwaysTagged ==
    [][/\ MismatchedArrayRead
          => ~ReadMade.ok /\ ReadMade.error = "UnexpectedDataType"
       /\ ArraysWhateverTheFlag']_vars

\* C30 amended: as stated, but an array read whose first byte is not the
\* expected array tag fails with UnexpectedDataType when the byte is the
\* value of another data type and with IllegalDataTypeError when it is the
\* value of no data type, also when type_checked is off.
C30_ArraysAlwaysChecked ==
    [][/\ MismatchedArrayRead
          => /\ ~ReadMade.ok
             /\ ReadMade.error = IF IsDataTypeValue(reader.buf[reader.pos + 1])
                                 THEN "UnexpectedDataType"
                                 ELSE "IllegalDataTypeError"
       /\ ArraysWhateverTheFlag']_vars

\* Two arrays written with type_checked off were read back with
\* type_checked on.
C30_Witness ==
    /\ phase = "read"
    /\ ~writer.type_checked
    /\ reader.type_checked
    /\ Len(written) = 2
    /\ written[1].kind = "array" /\ written[1].value # <<>>
    /\ written[2].kind = "str_array"
    /\ Len(read_back) = 2
    /\ read_back[2].ok
    /\ reader.pos = Len(reader.buf)

(***************************************************************************)
(* SpecPeek: the owner of a BdReader asks for the type of the next value   *)
(* before it reads, as CounterHandler::get_counter_totals does.            *)
(***************************************************************************)
\* The types asked for and read.
PeekTypes ==
    {BdDataType.BoolType, BdDataType.UnsignedChar8Type, BdDataType.UnsignedInteger32Type}

\* next_is_bool, next_is_u8, next_is_u32 and the reads of these types.
PeekOps ==
    <<Op("next_is", BdDataType.BoolType, <<>>, 0),
      Op("next_is", BdDataType.UnsignedChar8Type, <<>>, 0),
      Op("next_is", BdDataType.UnsignedInteger32Type, <<>>, 0),
      Op("prim", BdDataType.BoolType, <<>>, 0),
      Op("prim", BdDataType.UnsignedChar8Type, <<>>, 0),
      Op("prim", BdDataType.UnsignedInteger32Type, <<>>, 0)>>

\* Message bodies: tagged values, a list of tagged u32, a byte that is the
\* tag of no type before a tagged bool, and bodies that end early.
PeekInputs ==
    {<<>>, <<1>>, <<1, 1, 3, 7>>, <<3, 7, 1, 0>>, <<97, 3, 1>>, <<22, 1, 1>>,
     <<8, 5, 0, 0, 0, 8, 6, 0, 0, 0>>}

\* A next_is_* or read_* call.
PeekRead ==
    /\ phase = "peek"
    /\ Len(read_back) < MaxPeekReads
    /\ \E i \in DOMAIN PeekOps :
           LET op == PeekOps[i]
               res == ApplyRead(reader, op, 0)
           IN  /\ reader' = res.state
               /\ read_back' = Append(read_back, ReadOutcome(op, res))
    /\ UNCHANGED <<writer, written, phase>>
    /\ UNCHANGED <<keyVars, lobbyVars, regVars, orderVars, groupVars, wireVars>>

InitPeek ==
    /\ now = StartTime
    /\ clock = [step |-> 0, end |-> StartTime]
    /\ InitKeyStore
    /\ proofs = {}
    /\ session = [id |-> 0, authentication |-> None]
    /\ conn = "closed"
    /\ msgs = 0
    /\ TRANSACTION_ID_COUNTER = 0
    /\ last_in = None
    /\ last_out = None
    /\ inbox = <<>>
    /\ trace = <<>>
    /\ InitRegIdle
    /\ InitGroupIdle
    /\ writer = BdWriter_new
    /\ written = <<>>
    /\ read_back = <<>>
    /\ phase = "peek"
    /\ \E mode \in StreamMode, type_checked \in BOOLEAN :
           reader \in {[BdReader_new(buf) EXCEPT !.mode = mode,
                                                 !.type_checked = type_checked] :
                       buf \in PeekInputs}

NextPeek == PeekRead

SpecPeek == InitPeek /\ [][NextPeek]_vars

\* What the caller of a read can tell: the result, and the reader but for
\* the type it remembers while none is cached.
SameObservation(a, b) ==
    /\ a.ok = b.ok
    /\ a.error = b.error
    /\ a.ok => a.value = b.value
    /\ [a.state EXCEPT !.cached_data_type = BufferDataType(0, FALSE)]
       = [b.state EXCEPT !.cached_data_type = BufferDataType(0, FALSE)]

\* What asking twice gives: the same answer and the same reader.
PeekIsRepeatable(r, ty) ==
    LET once == BdReader_next_is(r, ty)
    IN  once.ok => /\ BdReader_next_is(once.state, ty).ok
                   /\ BdReader_next_is(once.state, ty).value = once.value
                   /\ BdReader_next_is(once.state, ty).state = once.state

\* A read after next_is_* observes what it observes without it.
PeekIsTransparent(r, ty, read_ty) ==
    SameObservation(BdReader_read(BdReader_next_is(r, ty).state, read_ty),
                    BdReader_read(r, read_ty))

\* After next_is_* said yes, the read of the type consumes the cached tag.
MatchingReadConsumes(r, ty) ==
    (BdReader_next_is(r, ty).ok /\ BdReader_next_is(r, ty).value)
    => ~BdReader_read(BdReader_next_is(r, ty).state, ty).state.has_data_type_cached

\* After next_is_* cached a tag, the read of a type with another tag leaves
\* it cached.
OtherReadKeepsTag(r, ty, read_ty) ==
    LET peeked == BdReader_next_is(r, ty).state
    IN  (/\ BdReader_next_is(r, ty).ok
         /\ peeked.has_data_type_cached
         /\ peeked.cached_data_type # BufferDataType(read_ty, FALSE))
        => BdReader_read(peeked, read_ty).state.has_data_type_cached

\* Not type checked: next_is_* says no and consumes nothing.
UncheckedPeek(r, ty) ==
    /\ BdReader_next_is(r, ty).ok
    /\ BdReader_next_is(r, ty).value = FALSE
    /\ BdReader_next_is(r, ty).state = r

\* C31: in type-checked mode next_is_<type>() does not change what later
\* reads observe: it caches the next tag, repeated calls give the same
\* answer, the next read of the matching type consumes the cached tag and
\* returns the value it would have returned without the call, and a read of
\* a non-matching type leaves the cached tag in place; in unchecked mode it
\* returns false and consumes nothing.
C31_PeekChangesNothing ==
    \A ty \in PeekTypes :
        IF reader.type_checked
        THEN /\ PeekIsRepeatable(reader, ty)
             /\ MatchingReadConsumes(reader, ty)
             /\ \A read_ty \in PeekTypes :
                    /\ PeekIsTransparent(reader, ty, read_ty)
                    /\ OtherReadKeepsTag(reader, ty, read_ty)
        ELSE UncheckedPeek(reader, ty)

\* Bits a read takes before its value: the tag of a type-checked reader.
TagBitsRead(r) == IF r.type_checked THEN TagBits(r) ELSE 0

\* The read needs more data than the buffer has left: the bits of a
\* read_bits call, the tag and the value of a primitive, or the tag of a
\* string and its bytes up to the terminating zero.
NeedsMoreThanLeft(r, op) ==
    \/ op.kind = "bits" /\ r.mode = "BitMode" /\ BitsLeft(r) < op.count
    \/ op.kind = "prim" /\ BitsLeft(r) < TagBitsRead(r) + ValueBits(r, op.ty)
    \/ /\ op.kind = "str"
       /\ r.mode = "ByteMode"
       /\ \A i \in (r.pos + 1 + (IF r.type_checked THEN 1 ELSE 0)) .. Len(r.buf) :
              r.buf[i] # 0

\* The step made a read that needs more data than was left; it failed, and
\* the same read made again fails.
ShortReadFails ==
    (/\ read_back' # read_back
     /\ phase = "raw"
     /\ NeedsMoreThanLeft(reader, ReadMade.op))
    => /\ ~ReadMade.ok
       /\ ~ApplyRead(reader', ReadMade.op, 170).ok

\* C32: a read that needs more data than remains in the message fails with
\* an error instead of returning a value (a ByteMode u32 read with 3 bytes
\* left, a ByteMode bool read at the end, a BitMode read of 5 bits with 4
\* bits left), and the same read repeated fails again.
C32_ShortReadIsAnError == [][ShortReadFails]_vars

(***************************************************************************)
(* SpecReply: AuthMessageType::reply_code on every message type, and on    *)
(* its own results.                                                        *)
(***************************************************************************)
\* AuthMessageType::from_u8(code): None when code is the code of no type.
AuthMessageType_from_u8(code) ==
    IF code \in AuthMessageType THEN Some(code) ELSE None

\* self.reply_code() on the type in last_in, or on the type the call before
\* returned; the unwrap() of the result of from_u8 panics on None.
ReplyCodeCall ==
    /\ conn = "open"
    /\ Len(trace) < MaxReplyCalls
    /\ LET self == IF trace = <<>> THEN Unwrap(last_in) ELSE trace[Len(trace)]
           found == AuthMessageType_from_u8(reply_code(self))
       IN  IF IsSome(found)
           THEN /\ trace' = Append(trace, Unwrap(found))
                /\ conn' = "open"
           ELSE /\ trace' = trace
                /\ conn' = "panicked"
    /\ UNCHANGED <<proofs, session, msgs, TRANSACTION_ID_COUNTER, last_in, last_out>>
    /\ UNCHANGED <<keyVars, regVars, inbox, codecVars, groupVars, wireVars>>

InitReply ==
    /\ now = StartTime
    /\ clock = [step |-> 0, end |-> StartTime]
    /\ InitKeyStore
    /\ proofs = {}
    /\ session = [id |-> 0, authentication |-> None]
    /\ conn = "open"
    /\ msgs = 0
    /\ TRANSACTION_ID_COUNTER = 0
    /\ last_in \in {Some(ty) : ty \in AuthMessageType}
    /\ last_out = None
    /\ inbox = <<>>
    /\ trace = <<>>
    /\ InitRegIdle
    /\ InitCodecIdle
    /\ InitGroupIdle

NextReply == ReplyCodeCall

SpecReply == InitReply /\ [][NextReply]_vars

\* C33: for every AuthMessageType with code c, reply_code() returns a defined
\* AuthMessageType (the unwrap never panics), the one with code
\* (c - c mod 2) + 1: a request (even code) maps to the reply at the next
\* code, a reply (odd code) maps to itself, and reply_code applied to the
\* result returns the result again.
C33_ReplyCodeIsTheReply ==
    LET c == Unwrap(last_in)
    IN  /\ conn # "panicked"
        /\ Len(trace) >= 1
               => (/\ trace[1] \in AuthMessageType
                   /\ trace[1] = (c - (c % 2)) + 1
                   /\ c % 2 = 0 => trace[1] = c + 1
                   /\ c % 2 = 1 => trace[1] = c)
        /\ Len(trace) >= 2 => trace[2] = trace[1]

\* C33 witness: reply_code was applied twice starting from the request with
\* the highest code, 0x28, and gave 0x29 both times.
C33_Witness ==
    /\ last_in = Some(40)
    /\ Len(trace) >= 2
    /\ trace[1] = 41
    /\ trace[2] = 41
    /\ conn = "open"

(***************************************************************************)
(* SpecGroups: DwGroupService (dw-server lobby/group/service.rs) under the *)
(* connection threads of several sessions.  Every thread serves the        *)
(* session with its own number as id; set_groups runs in the handler of    *)
(* the thread and remove_all_groups_for_session in its unregister          *)
(* callback, so the calls of one session never overlap, while the two      *)
(* critical sections of a call interleave with those of other sessions.    *)
(***************************************************************************)
GroupSessions == 1 .. MaxGroupSessions

\* GroupId values used by the clients.
GroupIds == {5, 9}

\* The lists a SetGroups task carries.
GroupLists == {<<>>, <<5>>, <<9>>, <<5, 9>>, <<5, 5>>}

\* HashSet::from_iter(vec)
HashSet_from(vec) == {vec[i] : i \in DOMAIN vec}

\* A thread outside DwGroupService that has made n set_groups calls.
NoGroupCall(n) == [at |-> "idle", calls |-> n, new_groups |-> {}, left_groups |-> {},
                   groups |-> <<>>]

\* for group_id in new_groups: *previous_value += 1, or insert(group_id, 1).
count_joined(counts, new_groups) ==
    [g \in GroupIds |->
        IF g \notin new_groups THEN counts[g]
        ELSE IF IsSome(counts[g]) THEN Some(Unwrap(counts[g]) + 1)
        ELSE Some(1)]

\* for group_id in left_groups: *previous_value -= 1 when it is above 0; an
\* absent or zero count is logged and left.
count_left(counts, left_groups) ==
    [g \in GroupIds |->
        IF g \in left_groups /\ IsSome(counts[g]) /\ Unwrap(counts[g]) > 0
        THEN Some(Unwrap(counts[g]) - 1)
        ELSE counts[g]]

\* for group_id in groups of remove_all_groups_for_session, over the Vec.
RECURSIVE count_removed(_, _)
count_removed(counts, groups) ==
    IF groups = <<>> THEN counts
    ELSE count_removed(count_left(counts, {Head(groups)}), Tail(groups))

\* set_groups up to the end of the block that holds the session_groups mutex,
\* and the two sets computed from what it took out.
SetGroupsSwap(t) ==
    /\ group_calls[t].at = "idle"
    /\ group_calls[t].calls < MaxSetGroupsCalls
    /\ \E groups \in GroupLists :
           LET previous_groups == IF IsSome(session_groups[t])
                                  THEN HashSet_from(Unwrap(session_groups[t]))
                                  ELSE {}
               new_groups == {g \in HashSet_from(groups) : g \notin previous_groups}
               left_groups == {g \in previous_groups : g \notin new_groups}
           IN  /\ session_groups' = [session_groups EXCEPT ![t] = Some(groups)]
               /\ group_calls' = [group_calls EXCEPT ![t] =
                                     [at |-> "set_groups",
                                      calls |-> group_calls[t].calls + 1,
                                      new_groups |-> new_groups,
                                      left_groups |-> left_groups,
                                      groups |-> <<>>]]
    /\ UNCHANGED aggregated_group_counts

\* set_groups under the write lock of aggregated_group_counts.
SetGroupsCount(t) ==
    /\ group_calls[t].at = "set_groups"
    /\ aggregated_group_counts' =
           count_left(count_joined(aggregated_group_counts, group_calls[t].new_groups),
                      group_calls[t].left_groups)
    /\ group_calls' = [group_calls EXCEPT ![t] = NoGroupCall(group_calls[t].calls)]
    /\ UNCHANGED session_groups

\* The session is unregistered: remove_all_groups_for_session takes its entry
\* out of session_groups.
RemoveGroupsSwap(t) ==
    /\ group_calls[t].at = "idle"
    /\ session_groups' = [session_groups EXCEPT ![t] = None]
    /\ group_calls' = [group_calls EXCEPT ![t] =
                          IF IsSome(session_groups[t])
                          THEN [NoGroupCall(group_calls[t].calls) EXCEPT
                                    !.at = "remove", !.groups = Unwrap(session_groups[t])]
                          ELSE [NoGroupCall(group_calls[t].calls) EXCEPT !.at = "gone"]]
    /\ UNCHANGED aggregated_group_counts

\* remove_all_groups_for_session under the write lock.
RemoveGroupsCount(t) ==
    /\ group_calls[t].at = "remove"
    /\ aggregated_group_counts' =
           count_removed(aggregated_group_counts, group_calls[t].groups)
    /\ group_calls' = [group_calls EXCEPT ![t] =
                          [NoGroupCall(group_calls[t].calls) EXCEPT !.at = "gone"]]
    /\ UNCHANGED session_groups

GroupStep(t) ==
    /\ \/ SetGroupsSwap(t)
       \/ SetGroupsCount(t)
       \/ RemoveGroupsSwap(t)
       \/ RemoveGroupsCount(t)
    /\ UNCHANGED <<keyVars, lobbyVars, regVars, orderVars, codecVars, wireVars>>

\* DwGroupService::new, with every session registered.
InitGroups ==
    /\ now = StartTime
    /\ clock = [step |-> 0, end |-> StartTime]
    /\ InitKeyStore
    /\ proofs = {}
    /\ session = [id |-> 0, authentication |-> None]
    /\ conn = "closed"
    /\ msgs = 0
    /\ TRANSACTION_ID_COUNTER = 0
    /\ last_in = None
    /\ last_out = None
    /\ inbox = <<>>
    /\ trace = <<>>
    /\ InitRegIdle
    /\ InitCodecIdle
    /\ session_groups = [t \in GroupSessions |-> None]
    /\ aggregated_group_counts = [g \in GroupIds |-> None]
    /\ group_calls = [t \in GroupSessions |-> NoGroupCall(0)]
    /\ stream = <<>>
    /\ buffered = <<>>

NextGroups == \E t \in GroupSessions : GroupStep(t)

SpecGroups == InitGroups /\ [][NextGroups]_vars

\* get_group_counts for one group: the stored count, 0 when there is none.
DwGroupService_get_group_count(g) ==
    IF IsSome(aggregated_group_counts[g]) THEN Unwrap(aggregated_group_counts[g]) ELSE 0

\* The live sessions whose most recently set list holds the group.
Members(g) ==
    {t \in GroupSessions : /\ group_calls[t].at # "gone"
                           /\ IsSome(session_groups[t])
                           /\ g \in HashSet_from(Unwrap(session_groups[t]))}

\* No thread is inside a DwGroupService call.
NoCallRunning == \A t \in GroupSessions : group_calls[t].at \in {"idle", "gone"}

\* C34: whenever no set_groups call and no disconnect is in progress, the
\* aggregated count of every group equals the number of live sessions whose
\* most recently set group list contains that group.
C34_CountsMatchMembers ==
    NoCallRunning
        => \A g \in GroupIds : DwGroupService_get_group_count(g) = Cardinality(Members(g))

(***************************************************************************)
(* SpecStream: connection_loop of BdSocket::handle_connection on the bytes *)
(* of one TCP connection.  The peer's bytes arrive in pieces of any size;  *)
(* inbox holds the bytes that have arrived at the socket and buffered the  *)
(* ones the BufReader of the session has taken from it.  The session is    *)
(* not authenticated and the message handler returns Ok.                   *)
(***************************************************************************)
\* The end of the peer's stream: it has closed its side.
FIN == 0 - 1

\* What the peer writes before it closes: pings, a buffer hint, message
\* frames of two bytes whose first byte is the encrypted? flag, a header above
\* MAX_MESSAGE_SIZE, and streams that end inside a header or a body.
StreamInputs ==
    {<<0, 0, 0, 0, 2, 0, 0, 0, 0, 9>>,
     <<200, 0, 0, 0, 7, 0, 0, 0, 0, 0, 0, 0>>,
     <<2, 0, 0, 0, 0, 9, 2, 0, 0, 0, 0, 8>>,
     <<2, 0, 0, 0, 1, 9, 0, 0, 0, 0>>,
     <<1, 0, 0, 4, 0, 0, 0, 0>>,
     <<0, 0, 0, 0, 0, 0>>,
     <<3, 0, 0, 0, 0, 9>>,
     <<>>}

\* The bytes of a sequence before the end of the stream.
RECURSIVE BeforeFin(_)
BeforeFin(bytes) ==
    IF bytes = <<>> \/ Head(bytes) = FIN THEN <<>>
    ELSE <<Head(bytes)>> \o BeforeFin(Tail(bytes))

\* The sequence without its first n elements.
Drop(bytes, n) == SubSeq(bytes, n + 1, Len(bytes))

\* A piece of the stream arrives at the socket.
Deliver ==
    /\ stream.sent < Len(stream.bytes)
    /\ \E k \in 1 .. (Len(stream.bytes) - stream.sent) :
           /\ inbox' = inbox \o SubSeq(stream.bytes, stream.sent + 1, stream.sent + k)
           /\ stream' = [stream EXCEPT !.sent = stream.sent + k]
    /\ UNCHANGED <<buffered, trace, conn, last_in>>

\* BufReader::fill_buf on an empty buffer: one read of the socket, which
\* yields what has arrived.
fill_buf(buf, socket) ==
    IF buf # <<>> THEN [buffered |-> buf, socket |-> socket]
    ELSE [buffered |-> BeforeFin(socket), socket |-> Drop(socket, Len(BeforeFin(socket)))]

\* let len = session.read(&mut b)?: BufReader::read copies what its buffer
\* holds, at most the four bytes asked for, after one fill_buf.
session_read(buf, socket) ==
    LET filled == fill_buf(buf, socket)
        len == min(4, Len(filled.buffered))
    IN  [len |-> len, b |-> SubSeq(filled.buffered, 1, len),
         buffered |-> Drop(filled.buffered, len), socket |-> filled.socket]

\* The loop ends: with Ok(()) for kind "closed", else with the error.
LoopEnds(kind, read) ==
    /\ trace' = Append(trace, Event(kind, 0))
    /\ conn' = "closed"
    /\ last_in' = None
    /\ buffered' = read.buffered
    /\ inbox' = read.socket

\* The head of a turn of connection_loop: the read of the header, ensure!(len
\* == 4), and the arms for 0 and for a header above MAX_MESSAGE_SIZE.  The
\* read blocks while nothing has arrived.
HeaderRead ==
    /\ conn = "open"
    /\ last_in = None
    /\ buffered # <<>> \/ inbox # <<>>
    /\ LET read == session_read(buffered, inbox)
           header == le_u32(read.b)
       IN  IF read.len = 0 THEN LoopEnds("closed", read)
           ELSE IF read.len # 4 THEN LoopEnds("IncompleteMessageHeaderError", read)
           ELSE IF header # 0 /\ header # 200 /\ ~WithinLimit(header)
           THEN LoopEnds("MessageTooLargeError", read)
           ELSE /\ trace' = IF header = 0 THEN Append(trace, Event("pong", 0)) ELSE trace
                /\ last_in' = IF header = 0 THEN None ELSE Some(header)
                /\ buffered' = read.buffered
                /\ inbox' = read.socket
                /\ conn' = "open"
    /\ UNCHANGED stream

\* session.read_u32 after a header of 200 and session.read_exact(msg) after a
\* message header: they return once the bytes asked for have arrived, or with
\* UnexpectedEof when the stream ends before; then BdMessage::new on the
\* message and the handler.
BodyRead ==
    /\ conn = "open"
    /\ IsSome(last_in)
    /\ LET header == Unwrap(last_in)
           wanted == IF header = 200 THEN 4 ELSE header
           have == buffered \o BeforeFin(inbox)
           rest == [buffered |-> Drop(have, min(wanted, Len(have))),
                    socket |-> Drop(inbox, Len(BeforeFin(inbox)))]
       IN  /\ Len(have) >= wanted \/ rest.socket # <<>>
           /\ IF Len(have) < wanted THEN LoopEnds("UnexpectedEof", rest)
              ELSE IF header # 200 /\ have[1] > 0 THEN LoopEnds("NoSessionKeyError", rest)
              ELSE /\ trace' = Append(trace, IF header = 200
                                             THEN Event("hint", le_u32(SubSeq(have, 1, 4)))
                                             ELSE Event("message", header))
                   /\ last_in' = None
                   /\ buffered' = rest.buffered
                   /\ inbox' = rest.socket
                   /\ conn' = "open"
    /\ UNCHANGED stream

StreamStep ==
    /\ \/ Deliver
       \/ HeaderRead
       \/ BodyRead
    /\ UNCHANGED <<proofs, session, msgs, TRANSACTION_ID_COUNTER, last_out>>
    /\ UNCHANGED <<keyVars, regVars, codecVars, groupVars>>

InitStream ==
    /\ now = StartTime
    /\ clock = [step |-> 0, end |-> StartTime]
    /\ InitKeyStore
    /\ proofs = {}
    /\ session = [id |-> 0, authentication |-> None]
    /\ conn = "open"
    /\ msgs = 0
    /\ TRANSACTION_ID_COUNTER = 0
    /\ last_in = None
    /\ last_out = None
    /\ inbox = <<>>
    /\ trace = <<>>
    /\ InitRegIdle
    /\ InitCodecIdle
    /\ session_groups = <<>>
    /\ aggregated_group_counts = <<>>
    /\ group_calls = <<>>
    /\ stream \in {[bytes |-> Append(bytes, FIN), sent |-> 0] : bytes \in StreamInputs}
    /\ buffered = <<>>

NextStream == StreamStep

SpecStream == InitStream /\ [][NextStream]_vars

\* What the loop does with a stream when every read finds the bytes it asks
\* for as far as the peer has sent them.
RECURSIVE OutcomeOf(_)
OutcomeOf(bytes) ==
    IF bytes = <<>> THEN <<Event("closed", 0)>>
    ELSE IF Len(bytes) < 4 THEN <<Event("IncompleteMessageHeaderError", 0)>>
    ELSE LET header == le_u32(SubSeq(bytes, 1, 4))
             after == Drop(bytes, 4)
         IN  IF header = 0 THEN <<Event("pong", 0)>> \o OutcomeOf(after)
             ELSE IF header = 200
             THEN IF Len(after) < 4 THEN <<Event("UnexpectedEof", 0)>>
                  ELSE <<Event("hint", le_u32(SubSeq(after, 1, 4)))>>
                       \o OutcomeOf(Drop(after, 4))
             ELSE IF ~WithinLimit(header) THEN <<Event("MessageTooLargeError", 0)>>
             ELSE IF Len(after) < header THEN <<Event("UnexpectedEof", 0)>>
             ELSE IF after[1] > 0 THEN <<Event("NoSessionKeyError", 0)>>
             ELSE <<Event("message", header)>> \o OutcomeOf(Drop(after, header))

\* C35: the outcome of the frame loop does not depend on how the peer's byte
\* stream is split into socket reads: when the loop has ended, what it did is
\* what the stream as a whole determines; in particular a 4-byte header that
\* arrived in pieces was parsed as one header and did not fail with
\* IncompleteMessageHeaderError.
C35_SplitDoesNotMatter ==
    conn = "closed" => trace = OutcomeOf(BeforeFin(stream.bytes))

(***************************************************************************)
(* Claims about panics and encryption, checked under SpecReg and Spec.     *)
(***************************************************************************)
\* C36: a panic of one connection thread inside register_session does not
\* stop later connections from being registered: while some thread has
\* panicked there, no other thread's register_session call panics at the
\* lock of the counter, and a thread beyond the lock holds a fresh id.
C36_PanicLeavesRegistrationWorking ==
    (\E u \in Threads : pc[u] = "panicked_reg")
        => \A t \in Threads :
               /\ pc[t] # "panicked_lock"
               /\ \A v \in Threads :
                      (t # v /\ pc[t] \in HasId /\ pc[v] \in HasId) => sid[t] # sid[v]

\* C37: on a Lobby session every reply written while no LobbyService
\* authentication has succeeded is an unencrypted frame; the ConnectionId reply
\* to the successful authentication is written as an encrypted frame under the
\* session key that authentication installed; and so is every
\* encrypt-if-available reply after it, under the key the session holds.
C37_EncryptedFromTheConnectionIdOn ==
    [][(Handled /\ IsSome(Unwrap(last_out').wire))
       => LET w == Unwrap(Unwrap(last_out').wire)
              before == session.authentication
              after == session'.authentication
          IN  /\ (before = None /\ after = None) => (w.encrypted = 0 /\ w.key = "")
              /\ after # before
                     => (/\ IsSome(after)
                         /\ w.data = ConnectionIdResponse(session.id)
                         /\ w.encrypted = 1
                         /\ w.key = Unwrap(after).session_key
                         /\ w.key = Unwrap(last_in').payload.body.proof.session_key)
              /\ (IsSome(before) /\ w.data.should_encrypt)
                     => (/\ IsSome(after)
                         /\ w.encrypted = 1
                         /\ w.key = Unwrap(after).session_key)]_vars

\* C37 witness: the session holds a key, the reply to the frame handled last
\* is a TaskReply written as an encrypted frame under that key, and the frame
\* itself came in encrypted: the ConnectionId reply went out before.
C37_Witness ==
    /\ IsSome(last_out)
    /\ IsSome(session.authentication)
    /\ Unwrap(last_in).encrypted = 1
    /\ IsSome(Unwrap(last_out).wire)
    /\ Unwrap(Unwrap(last_out).wire).data.message_type = 1
    /\ Unwrap(Unwrap(last_out).wire).encrypted = 1
    /\ Unwrap(Unwrap(last_out).wire).key = Unwrap(session.authentication).session_key

(***************************************************************************)
(* SpecRace: threads of the Auth server inside get_current_key.  A thread  *)
(* reads the clock before it asks for the write lock of the state, and     *)
(* may wait for the lock for any time; the rest of the function runs with  *)
(* the lock held.  pc holds the position of every thread and the clock     *)
(* value it read, trace the calls in the order in which they held the lock.*)
(***************************************************************************)
RaceThreads == 1 .. NRaceThreads

\* One step of the clock of SpecRace: more than the 60 s after which a key
\* is no longer current.
RaceClockStep == 70

\* A thread outside get_current_key.
Outside == [at |-> "outside", now |-> 0]

\* let now = chrono::Utc::now().timestamp()
RaceReadClock(t) ==
    /\ pc[t].at = "outside"
    /\ Len(trace) + Cardinality({u \in RaceThreads : pc[u].at = "lock"}) < MaxRaceCalls
    /\ pc' = [pc EXCEPT ![t] = [at |-> "lock", now |-> now]]
    /\ UNCHANGED <<keys, key_index, rng, ret, issued, trace>>

\* self.state.write() and the rest of get_current_key under the guard, with
\* the clock value read before.
RaceLocked(t) ==
    /\ pc[t].at = "lock"
    /\ LET r == get_current_key(keys, key_index, pc[t].now, rng + 1)
       IN  /\ keys' = r.keys
           /\ key_index' = r.key_index
           /\ rng' = IF r.rotated THEN rng + 1 ELSE rng
           /\ ret' = Some([t |-> pc[t].now, key |-> r.key])
           /\ trace' = Append(trace, [thread |-> t, now |-> pc[t].now,
                                      rotated |-> r.rotated, key |-> r.key])
    /\ pc' = [pc EXCEPT ![t] = Outside]
    /\ UNCHANGED issued

RaceStep ==
    /\ \E t \in RaceThreads : RaceReadClock(t) \/ RaceLocked(t)
    /\ UNCHANGED <<now, clock>>
    /\ UNCHANGED lobbyVars
    /\ UNCHANGED <<session_id_counter, counter_lock, poisoned, sid, serveVars>>
    /\ UNCHANGED <<inbox, codecVars, groupVars, wireVars>>

\* The clock advances while threads are inside the function.
RaceTick ==
    /\ now + clock.step <= clock.end
    /\ now' = now + clock.step
    /\ UNCHANGED <<clock, keys, key_index, rng, ret, issued>>
    /\ UNCHANGED lobbyVars
    /\ UNCHANGED regVars
    /\ UNCHANGED <<orderVars, codecVars, groupVars, wireVars>>

InitRace ==
    /\ now = StartTime
    /\ clock = [step |-> RaceClockStep, end |-> StartTime + RaceHorizon]
    /\ InitKeyStore
    /\ InitLobbyIdle
    /\ session_id_counter = 0
    /\ counter_lock = 0
    /\ poisoned = FALSE
    /\ pc = [t \in RaceThreads |-> Outside]
    /\ sid = [t \in RaceThreads |-> 0]
    /\ InitServe

NextRace == RaceStep \/ RaceTick

SpecRace == InitRace /\ [][NextRace]_vars

\* Two calls that read the same clock value, in the order of their turns at
\* the lock.
SameClockCalls ==
    {p \in (DOMAIN trace) \X (DOMAIN trace) : p[1] < p[2] /\ trace[p[1]].now = trace[p[2]].now}

\* A call that read a later clock value than call i rotated the key between
\* the turns of calls i and j.
LaterRotationBetween(i, j) ==
    \E k \in DOMAIN trace : /\ i < k
                            /\ k < j
                            /\ trace[k].rotated
                            /\ trace[k].now > trace[i].now

OnlyRotatedKeysAreValid ==
    /\ \A i \in ValidSlots(keys, now) : /\ keys[i] # InMemoryKey_empty
                                        /\ keys[i].aes_key \in 1 .. rng
    /\ rng = 0 => get_valid_keys(keys, now) = {}

\* The frame handled carries an opaque proof that the LobbyService handler
\* hands to ClientOpaqueAuthProof::deserialize.
ProofPresented ==
    /\ Handled
    /\ Unwrap(last_out').invoked = Some(7)
    /\ Unwrap(last_in').payload.body.kind = "auth"
    /\ Unwrap(last_in').payload.body.title \in Title

\* C39: get_valid_keys never returns a slot that was not filled by a rotation:
\* the initial all-zero keys (valid_until 0) are never valid, so until the
\* first get_current_key call get_valid_keys is empty and every opaque proof
\* presented to the Lobby is refused with UnknownKeyError; handling the proof
\* leaves the store as it was.
C39_InitialKeysAreNeverValid ==
    [][/\ OnlyRotatedKeysAreValid
       /\ OnlyRotatedKeysAreValid'
       /\ ProofPresented
              => (/\ <<keys, key_index, rng>>' = <<keys, key_index, rng>>
                  /\ rng = 0
                         => (/\ Unwrap(last_out').error = "UnknownKeyError"
                             /\ Unwrap(last_out').wire = None
                             /\ session' = session
                             /\ conn' = "closed"))]_vars

\* C39 witness: no key has been drawn, and the proof a client sealed itself
\* under the all-zero key of the initial slots was refused with
\* UnknownKeyError.
C39_Witness ==
    /\ rng = 0
    /\ IsSome(last_out)
    /\ Unwrap(last_out).invoked = Some(7)
    /\ Unwrap(last_in).payload.body.kind = "auth"
    /\ Unwrap(last_in).payload.body.proof = ForgedProof(0, TRUE)
    /\ Unwrap(last_in).payload.body.title = 18409
    /\ Unwrap(last_out).error = "UnknownKeyError"
    /\ session.authentication = None

(***************************************************************************)
(* SpecCounts: GroupHandler::get_group_counts (lobby/group/handler.rs) on  *)
(* the groups of a request and the counts its GroupService returns.  A u64 *)
(* is the sequence of its four 16-bit limbs, a u32 that of its two, the    *)
(* most significant first.                                                 *)
(***************************************************************************)
\* u32::MAX as u64
U32_MAX_as_u64 == <<0, 0, 65535, 65535>>

\* a <= b on u64
u64_le(a, b) ==
    \/ a = b
    \/ \E i \in 1 .. 4 : a[i] < b[i] /\ \A j \in 1 .. (i - 1) : a[j] = b[j]

\* Ord::max on u64
u64_max(a, b) == IF u64_le(a, b) THEN b ELSE a

\* `as u32` on a u64: the low 32 bits.
as_u32(a) == <<a[3], a[4]>>

\* Counts a GroupService returns: 0, 3, u32::MAX - 1, u32::MAX, u32::MAX + 1,
\* 2^32 + 5 and u64::MAX.
CountInputs ==
    {<<0, 0, 0, 0>>, <<0, 0, 0, 3>>, <<0, 0, 65535, 65534>>, <<0, 0, 65535, 65535>>,
     <<0, 1, 0, 0>>, <<0, 1, 0, 5>>, <<65535, 65535, 65535, 65535>>}

\* The requests: the group ids read from the message, with the count the
\* service holds for each.
CountRequests ==
    {<<>>}
    \cup {<<[group_id |-> 5, count |-> c]>> : c \in CountInputs}
    \cup {<<[group_id |-> 5, count |-> c], [group_id |-> 9, count |-> d]>> :
              c \in CountInputs, d \in CountInputs}

\* group_count: counts[i].max(u32::MAX as u64) as u32
group_count(count) == as_u32(u64_max(count, U32_MAX_as_u64))

\* GroupHandler::get_group_counts: the results of the TaskReply.
GetGroupCounts ==
    /\ conn = "open"
    /\ last_out = None
    /\ LET request == Unwrap(last_in)
           results == [i \in DOMAIN request |->
                          [group_id |-> request[i].group_id,
                           group_count |-> group_count(request[i].count)]]
       IN  last_out' = Some([transaction_id |-> TRANSACTION_ID_COUNTER,
                             error_code |-> "NoError",
                             operation_id |-> 4,
                             results |-> results])
    /\ TRANSACTION_ID_COUNTER' = TRANSACTION_ID_COUNTER + 1
    /\ msgs' = msgs + 1
    /\ UNCHANGED <<proofs, session, conn, last_in>>
    /\ UNCHANGED <<keyVars, regVars, orderVars, codecVars, groupVars, wireVars>>

InitCounts ==
    /\ now = StartTime
    /\ clock = [step |-> 0, end |-> StartTime]
    /\ InitKeyStore
    /\ proofs = {}
    /\ session = [id |-> 0, authentication |-> None]
    /\ conn = "open"
    /\ msgs = 0
    /\ TRANSACTION_ID_COUNTER = 0
    /\ last_in \in {Some(request) : request \in CountRequests}
    /\ last_out = None
    /\ inbox = <<>>
    /\ trace = <<>>
    /\ InitRegIdle
    /\ InitCodecIdle
    /\ InitGroupIdle

NextCounts == GetGroupCounts

SpecCounts == InitCounts /\ [][NextCounts]_vars

\* The 64-bit count clamped to 32 bits.
Clamped(count) ==
    IF u64_le(count, U32_MAX_as_u64) THEN <<count[3], count[4]>> ELSE <<65535, 65535>>

\* C40: for each requested group the GetGroupCounts task reports the group's
\* 64-bit count clamped to 32 bits: the count itself when it is at most
\* u32::MAX, and u32::MAX only when the count is larger.
C40_CountsAreClamped ==
    IsSome(last_out)
        => LET request == Unwrap(last_in)
               results == Unwrap(last_out).results
           IN  /\ Len(results) = Len(request)
               /\ \A i \in DOMAIN request :
                      /\ results[i].group_id = request[i].group_id
                      /\ results[i].group_count = Clamped(request[i].count)

====
